---- MODULE Spec2Model ----
(***************************************************************************)
(* Model of the reservation assistant: the slot availability engine and    *)
(* suggestion memory of app/services/reservation_service.py, the session   *)
(* store of app/services/helpers/whatsapp_db.py and the dialog handler of  *)
(* app/services/whatsapp.py.                                               *)
(*                                                                         *)
(* Instants are whole seconds of local wall-clock time counted from 00:00  *)
(* of a Monday (day 0); the sub-minute part of an instant stands for the   *)
(* seconds and microseconds of a Python datetime.  An ISO-8601 string of   *)
(* an instant (isoformat / fromisoformat, a lossless round trip in one     *)
(* fixed timezone) is represented by the instant itself.                   *)
(***************************************************************************)
EXTENDS Integers, Sequences, FiniteSets, TLC

VARIABLES now, calendar, service, memory, result, offers, ticks, sessions, response, last, pending

vars == <<now, calendar, service, memory, result, offers, ticks, sessions, response, last, pending>>

(***************************************************************************)
(* Program constants                                                       *)
(***************************************************************************)
DEFAULT_TOP_N == 5
DEFAULT_DURATION_MINUTES == 60
MAX_SLOT_SEARCH_DAYS == 14
SuggestionMemoryTtlLonger == 10 * 60 + 1
SUGGESTION_MEMORY_TTL == 10 * 60
MORNING_END == 12 * 3600

MinuteSecs == 60
HourSecs == 60 * MinuteSecs
DaySecs == 24 * HourSecs

(***************************************************************************)
(* Bounds of the model                                                     *)
(***************************************************************************)
MaxTicks == 2
MaxMem == 3
MaxBookings == 2
MaxDialogBookings == 1

(***************************************************************************)
(* datetime accessors                                                      *)
(***************************************************************************)
DateOf(dt) == dt \div DaySecs
HourOf(dt) == (dt % DaySecs) \div HourSecs
MinuteOf(dt) == (dt % HourSecs) \div MinuteSecs
SecondOf(dt) == dt % MinuteSecs
Weekday(d) == d % 7
Combine(d, t) == d * DaySecs + t
At(d, h, m, s) == d * DaySecs + h * HourSecs + m * MinuteSecs + s
Minutes(n) == n * MinuteSecs

(***************************************************************************)
(* BUSINESS_HOURS: weekday -> list of (start, end) times of day            *)
(***************************************************************************)
BUSINESS_HOURS ==
  [wd \in 0..6 |->
     CASE wd = 0 -> << <<8 * HourSecs, 12 * HourSecs>> >>
       [] wd = 1 -> << <<14 * HourSecs, 17 * HourSecs>> >>
       [] wd = 2 -> << <<8 * HourSecs, 12 * HourSecs>>, <<14 * HourSecs, 17 * HourSecs>> >>
       [] wd = 3 -> << <<8 * HourSecs, 12 * HourSecs>> >>
       [] OTHER  -> << >>]

\* _align_to_slot without any alignment (variant)
AlignNone(dt, slot_minutes) == dt

\* _align_to_slot(dt, slot_minutes)
AlignToSlot(dt, slot_minutes) ==
  LET dt0 == dt - SecondOf(dt)
      minute_total == HourOf(dt0) * 60 + MinuteOf(dt0)
      remainder == minute_total % slot_minutes
      next_minutes == minute_total - remainder + slot_minutes
      hours == next_minutes \div 60
      minutes == next_minutes % 60
      day_increment == hours \div 24
  IN  IF remainder = 0
        THEN dt0
        ELSE At(DateOf(dt0), hours % 24, minutes, 0) + day_increment * DaySecs

\* block_filter inside _intervals_for_date
BlockFilter(block, start_t, end_t) ==
  IF block = "" THEN TRUE
  ELSE IF block \in {"morning", "manana"} THEN start_t < MORNING_END
  ELSE IF block \in {"afternoon", "tarde"} THEN start_t >= MORNING_END
  ELSE TRUE

\* _intervals_for_date(current_date, block): list of (start_dt, end_dt)
IntervalsForDate(d, block) ==
  LET raw == BUSINESS_HOURS[Weekday(d)]
      keep == SelectSeq(raw, LAMBDA iv : BlockFilter(block, iv[1], iv[2]))
  IN  [i \in 1..Len(keep) |-> <<Combine(d, keep[i][1]), Combine(d, keep[i][2])>>]

(***************************************************************************)
(* Calendar gateway: events are [start, end) windows tagged by creator.    *)
(* freebusy().query returns the busy windows that intersect the queried    *)
(* window, clipped to it.                                                  *)
(***************************************************************************)
Max2(a, b) == IF a >= b THEN a ELSE b
Min2(a, b) == IF a <= b THEN a ELSE b

FreeBusy(cal, timeMin, timeMax) ==
  { [start |-> Max2(e.start, timeMin), end |-> Min2(e.end, timeMax)] :
      e \in {x \in cal : x.start < timeMax /\ x.end > timeMin} }

\* overlap test with a wrong upper comparison (variant)
OverlapsStartOnly(busy, cs, ce) == cs < busy.end /\ cs >= busy.start

\* the overlap test of the slot loops: candidate vs one busy window
Overlaps(busy, cs, ce) == cs < busy.end /\ ce > busy.start

(***************************************************************************)
(* Suggestion memory: user key -> list of <<slot_start_iso, offered_at>>   *)
(***************************************************************************)
UserKeys == {"u1", "u2"}

NoSlot == [slot_start_iso |-> -1, slot_end_iso |-> -1]
NoDate == -1

\* _recent_suggestions that ignores the TTL filter result (variant: nothing is recent)
RecentNothing(mem, user_key, t) == {}

\* _recent_suggestions that reads the entries of every user key (variant)
RecentOfAnyUser(mem, user_key, t) ==
  IF user_key = "" THEN {}
  ELSE UNION { { mem[u][i][1] : i \in {j \in 1..Len(mem[u]) : t - mem[u][j][2] < SUGGESTION_MEMORY_TTL} } :
               u \in DOMAIN mem }

\* _recent_suggestions(user_key, now)
RecentSuggestions(mem, user_key, t) ==
  IF user_key = "" THEN {}
  ELSE LET entries == mem[user_key]
       IN  { entries[i][1] : i \in {j \in 1..Len(entries) : t - entries[j][2] < SUGGESTION_MEMORY_TTL} }

\* _remember_suggestion that keeps only the newest entry of the user (variant)
RememberOnlyLast(mem, user_key, slot_iso, t) ==
  IF user_key = "" THEN mem
  ELSE [mem EXCEPT ![user_key] = << <<slot_iso, t>> >>]

\* _remember_suggestion(user_key, slot_iso, now)
RememberSuggestion(mem, user_key, slot_iso, t) ==
  IF user_key = "" THEN mem
  ELSE [mem EXCEPT ![user_key] = Append(@, <<slot_iso, t>>)]

(***************************************************************************)
(* list_next_slots                                                         *)
(***************************************************************************)
\* user_key = str(chat_id or customer_number or "").strip()
UserKeyOf(arguments) ==
  IF arguments.chat_id # "" THEN arguments.chat_id ELSE arguments.customer_number

\* search_date of list_next_slots: 'desde' parsed, today + 7 when unparseable,
\* today when absent, today when it is today or past
SearchDate(desde, today) ==
  LET parsed == CASE desde.kind = "date" -> desde.date
                  [] desde.kind = "bad"  -> today + 7
                  [] OTHER               -> today
  IN  IF parsed <= today THEN today ELSE parsed

\* normalized_desde of list_next_slots
NormalizedDesde(desde, today) ==
  IF desde.kind = "none" \/ SearchDate(desde, today) <= today
    THEN NoDate
    ELSE SearchDate(desde, today)

MkSlot(cs, ce) == [slot_start_iso |-> cs, slot_end_iso |-> ce]

\* the inner while loop over the cursor inside one business interval
RECURSIVE CursorLoop(_, _, _, _, _, _)
CursorLoop(cursor, end_dt, busy_slots, user_key, recent, slots) ==
  IF cursor + Minutes(DEFAULT_DURATION_MINUTES) <= end_dt /\ Len(slots) < DEFAULT_TOP_N
    THEN LET candidate_start == cursor
             candidate_end == cursor + Minutes(DEFAULT_DURATION_MINUTES)
             overlap == \/ \E busy \in busy_slots : Overlaps(busy, candidate_start, candidate_end)
                        \/ (user_key # "" /\ candidate_start \in recent)
         IN  CursorLoop(candidate_end, end_dt, busy_slots, user_key, recent,
                        IF overlap THEN slots
                        ELSE Append(slots, MkSlot(candidate_start, candidate_end)))
    ELSE slots

\* the start of the cursor in one interval: clamped to 'now' on the current day, then aligned
CursorStart(start_dt, current_date, t) ==
  AlignToSlot(IF current_date = DateOf(t) /\ start_dt < t THEN t ELSE start_dt,
              DEFAULT_DURATION_MINUTES)

\* the for loop over the intervals of one day (one freebusy query per interval)
RECURSIVE IntervalLoop(_, _, _, _, _, _, _, _)
IntervalLoop(intervals, i, current_date, t, cal, user_key, recent, slots) ==
  IF i > Len(intervals) THEN slots
  ELSE LET start_dt == intervals[i][1]
           end_dt == intervals[i][2]
           busy_slots == FreeBusy(cal, start_dt, end_dt)
           cursor == CursorStart(start_dt, current_date, t)
       IN  IntervalLoop(intervals, i + 1, current_date, t, cal, user_key, recent,
                        CursorLoop(cursor, end_dt, busy_slots, user_key, recent, slots))

\* the outer while loop over day_offset
RECURSIVE DayLoop(_, _, _, _, _, _, _, _)
DayLoop(search_date, day_offset, block, t, cal, user_key, recent, slots) ==
  IF Len(slots) < DEFAULT_TOP_N /\ day_offset < MAX_SLOT_SEARCH_DAYS
    THEN LET current_date == search_date + day_offset
             intervals == IntervalsForDate(current_date, block)
         IN  DayLoop(search_date, day_offset + 1, block, t, cal, user_key, recent,
                     IntervalLoop(intervals, 1, current_date, t, cal, user_key, recent, slots))
    ELSE slots

\* sorted(slots, key = slot_start_iso): stable insertion sort
RECURSIVE InsertSlot(_, _)
InsertSlot(sorted, s) ==
  IF sorted = << >> THEN << s >>
  ELSE IF s.slot_start_iso < Head(sorted).slot_start_iso THEN << s >> \o sorted
  ELSE << Head(sorted) >> \o InsertSlot(Tail(sorted), s)

RECURSIVE SortSlots(_)
SortSlots(slots) ==
  IF slots = << >> THEN << >>
  ELSE InsertSlot(SortSlots(SubSeq(slots, 1, Len(slots) - 1)), slots[Len(slots)])

FirstN(seq, n) == SubSeq(seq, 1, Min2(n, Len(seq)))

\* the for loop picking the last slot of top_slots not recently suggested (variant)
PickCandidateLast(top_slots, recent) ==
  LET ok == {i \in 1..Len(top_slots) : top_slots[i].slot_start_iso \notin recent}
  IN  IF ok = {} THEN NoSlot
      ELSE top_slots[CHOOSE i \in ok : \A j \in ok : i >= j]

\* the for loop that picks the first slot of top_slots not recently suggested
PickCandidate(top_slots, recent) ==
  LET ok == {i \in 1..Len(top_slots) : top_slots[i].slot_start_iso \notin recent}
  IN  IF ok = {} THEN NoSlot
      ELSE top_slots[CHOOSE i \in ok : \A j \in ok : i <= j]

\* list_next_slots(arguments) at instant t: the returned dict and the memory afterwards
ListNextSlots(arguments, t, cal, mem) ==
  LET block == arguments.block
      search_date == SearchDate(arguments.desde, DateOf(t))
      user_key == UserKeyOf(arguments)
      memory_now == t
      recent_suggestions == IF user_key # "" THEN RecentSuggestions(mem, user_key, memory_now) ELSE {}
      slots == DayLoop(search_date, 0, block, t, cal, user_key, recent_suggestions, << >>)
      top_slots == FirstN(SortSlots(slots), DEFAULT_TOP_N)
      candidate == PickCandidate(top_slots, recent_suggestions)
      rotate == candidate = NoSlot /\ top_slots # << >> /\ user_key # ""
      mem1 == IF rotate THEN [mem EXCEPT ![user_key] = << >>] ELSE mem
      candidate1 == IF rotate THEN top_slots[1] ELSE candidate
      suggested == IF candidate1 # NoSlot THEN candidate1
                   ELSE IF top_slots # << >> THEN top_slots[1] ELSE NoSlot
      mem2 == IF suggested # NoSlot /\ user_key # ""
                THEN RememberSuggestion(mem1, user_key, suggested.slot_start_iso, memory_now)
                ELSE mem1
  IN  [available_slots |-> top_slots,
       suggested |-> suggested,
       block |-> IF block = "" THEN "all_day" ELSE block,
       desde |-> NormalizedDesde(arguments.desde, DateOf(t)),
       rotated |-> rotate,
       memory |-> mem2]

(***************************************************************************)
(* check_availability and create_reservation                               *)
(* arguments.date is a day number or NoDate when missing; arguments.time   *)
(* is a time of day in seconds or NoTime when missing.                     *)
(***************************************************************************)
NoTime == -1
NoError == ""
ErrOutsideHours == "Outside business hours."
ErrMissing == "Both 'date' (YYYY-MM-DD) and 'time' (HH:MM) are required."

\* _ensure_business_hours(date_str, time_str): the ValueError it raises, or NoError
EnsureBusinessHours(date, time) ==
  IF date = NoDate \/ time = NoTime THEN NoError
  ELSE LET dt == Combine(date, time)
           intervals == IntervalsForDate(date, "")
       IN  IF intervals = << >> THEN ErrOutsideHours
           ELSE IF \E i \in 1..Len(intervals) : intervals[i][1] <= dt /\ dt < intervals[i][2]
                  THEN NoError
                  ELSE ErrOutsideHours

\* _extract_time_window(arguments): (start, end) or the ValueError
ExtractTimeWindow(arguments) ==
  IF arguments.date = NoDate \/ arguments.time = NoTime
    THEN [error |-> ErrMissing, start |-> -1, end |-> -1]
    ELSE [error |-> NoError,
          start |-> Combine(arguments.date, arguments.time),
          end |-> Combine(arguments.date, arguments.time) + Minutes(DEFAULT_DURATION_MINUTES)]

\* the while loop of check_availability inside one business interval
RECURSIVE DayCursorLoop(_, _, _, _)
DayCursorLoop(cursor, end_dt, busy_slots, slots) ==
  IF cursor + Minutes(DEFAULT_DURATION_MINUTES) <= end_dt
    THEN LET candidate_start == cursor
             candidate_end == cursor + Minutes(DEFAULT_DURATION_MINUTES)
             overlap == \E busy \in busy_slots : Overlaps(busy, candidate_start, candidate_end)
         IN  DayCursorLoop(candidate_end, end_dt, busy_slots,
                           IF overlap THEN slots
                           ELSE Append(slots, MkSlot(candidate_start, candidate_end)))
    ELSE slots

\* the for loop of check_availability over the intervals of the day
RECURSIVE DayIntervalLoop(_, _, _, _)
DayIntervalLoop(intervals, i, busy_slots, slots) ==
  IF i > Len(intervals) THEN slots
  ELSE DayIntervalLoop(intervals, i + 1, busy_slots,
         DayCursorLoop(AlignToSlot(intervals[i][1], DEFAULT_DURATION_MINUTES),
                       intervals[i][2], busy_slots, slots))

\* check_availability(arguments): the returned dict, or the raised ValueError in 'error'.
\* slots_for_day keeps the slot records from which the spoken 'available_slots' are rendered.
CheckAvailability(arguments, cal) ==
  LET ensure == EnsureBusinessHours(arguments.date, arguments.time)
      window == ExtractTimeWindow(arguments)
      intervals == IntervalsForDate(arguments.date, "")
      day_start == intervals[1][1]
      day_end == intervals[Len(intervals)][2]
      busy_slots == FreeBusy(cal, day_start, day_end)
      requested_available == ~ \E busy \in busy_slots : Overlaps(busy, window.start, window.end)
      slots_for_day == SortSlots(DayIntervalLoop(intervals, 1, busy_slots, << >>))
  IN  IF ensure # NoError
        THEN [error |-> ensure, available |-> FALSE, slots_for_day |-> << >>, slots_in_day |-> FALSE]
      ELSE IF window.error # NoError
        THEN [error |-> window.error, available |-> FALSE, slots_for_day |-> << >>, slots_in_day |-> FALSE]
      ELSE IF intervals = << >>
        THEN [error |-> NoError, available |-> FALSE, slots_for_day |-> << >>, slots_in_day |-> FALSE]
      ELSE [error |-> NoError, available |-> requested_available,
            slots_for_day |-> slots_for_day, slots_in_day |-> Len(slots_for_day) > 0]

\* the event body create_reservation inserts
EventBody(arguments) ==
  LET window == ExtractTimeWindow(arguments)
  IN  [start |-> window.start, end |-> window.end, by |-> "service",
       name |-> arguments.name, customer_number |-> arguments.customer_number,
       reforma |-> arguments.reforma]

\* create_reservation up to its availability decision: "error", "not_available" or "insert"
CreateDecision(arguments, cal) ==
  LET ensure == EnsureBusinessHours(arguments.date, arguments.time)
      availability == CheckAvailability(arguments, cal)
  IN  IF ensure # NoError THEN [outcome |-> "error", error |-> ensure]
      ELSE IF availability.error # NoError THEN [outcome |-> "error", error |-> availability.error]
      ELSE IF ~ availability.available THEN [outcome |-> "not_available", error |-> NoError]
      ELSE [outcome |-> "insert", error |-> NoError]

\* create_reservation(arguments) run without interruption: the returned dict and the calendar afterwards
CreateReservation(arguments, cal) ==
  LET decision == CreateDecision(arguments, cal)
  IN  [error |-> decision.error,
       created |-> decision.outcome = "insert",
       reason |-> IF decision.outcome = "not_available" THEN "not_available" ELSE "",
       calendar |-> IF decision.outcome = "insert" THEN cal \cup {EventBody(arguments)} ELSE cal]

(***************************************************************************)
(* Inputs of the model                                                     *)
(***************************************************************************)
FarDay == 60

ExtEvent(s, e) ==
  [start |-> s, end |-> e, by |-> "external", name |-> "", customer_number |-> "", reforma |-> ""]

\* events of other writers of the shared calendar
ExternalEvents ==
  { ExtEvent(At(0, 8, 30, 0), At(0, 9, 30, 0)),
    ExtEvent(At(0, 10, 0, 0), At(0, 11, 0, 0)),
    ExtEvent(At(0, 9, 0, 0), At(FarDay, 0, 0, 0)),
    ExtEvent(At(0, 11, 0, 0), At(FarDay, 0, 0, 0)) }

CalendarChoices == SUBSET ExternalEvents

\* instants at which a run starts: before, inside and after Monday's business interval,
\* with and without a sub-minute part, and on a day without business hours
NowSamples ==
  { At(0, 7, 15, 0), At(0, 9, 0, 0), At(0, 9, 0, 30), At(0, 9, 20, 10), At(0, 11, 30, 0),
    At(2, 12, 30, 45), At(3, 23, 30, 10), At(4, 10, 0, 0) }

TickSteps == {300, 600}

NoDesde == [kind |-> "none", date |-> NoDate]
BadDesde == [kind |-> "bad", date |-> NoDate]
DateDesde(d) == [kind |-> "date", date |-> d]

\* arguments of list_next_slots without a user key
ListArgs ==
  [block : {"", "morning", "tarde"},
   desde : {NoDesde, BadDesde, DateDesde(0), DateDesde(2)},
   chat_id : {""},
   customer_number : {""}]

CheckArgs ==
  [date : {0, 2, 4, NoDate},
   time : {8 * HourSecs, 8 * HourSecs + 30 * MinuteSecs, 11 * HourSecs, 13 * HourSecs, NoTime},
   name : {"Ana"}, customer_number : {"u1"}, reforma : {"cocina"}]

EmptyMap == << >>
NoResult == [op |-> "none"]

InitRest ==
  /\ memory = [u \in UserKeys |-> << >>]
  /\ result = NoResult
  /\ offers = << >>
  /\ ticks = 0
  /\ sessions = EmptyMap
  /\ response = << >>
  /\ last = NoResult
  /\ pending = {}

(***************************************************************************)
(* Slot engine called as tools (ReservationService.dispatch)               *)
(***************************************************************************)
\* one call of list_next_slots at the current instant; 'recent', 'memory_before',
\* 'plain_slots' (the list the same call returns without a user key) and 'rotated'
\* record the call's context
ListCall(arguments) ==
  LET user_key == UserKeyOf(arguments)
      anonymous == [arguments EXCEPT !.chat_id = "", !.customer_number = ""]
  IN  \E r \in {ListNextSlots(arguments, now, calendar, memory)} :
        /\ result' = [op |-> "list_next_slots", arguments |-> arguments, at |-> now,
                      user_key |-> user_key,
                      recent |-> RecentSuggestions(memory, user_key, now),
                      memory_before |-> memory,
                      plain_slots |-> ListNextSlots(anonymous, now, calendar, memory).available_slots,
                      available_slots |-> r.available_slots,
                      suggested |-> r.suggested,
                      rotated |-> r.rotated,
                      desde |-> r.desde]
        /\ memory' = r.memory
        /\ offers' = IF r.suggested # NoSlot /\ user_key # ""
                       THEN Append(offers, [user |-> user_key, slot |-> r.suggested.slot_start_iso, at |-> now])
                       ELSE offers
        /\ UNCHANGED <<now, calendar, service, ticks, sessions, response, last, pending>>

InitSlots ==
  /\ service = "up"
  /\ now \in NowSamples
  /\ calendar \in CalendarChoices
  /\ InitRest

\* tool list_next_slots
CallListNextSlots == \E arguments \in ListArgs : ListCall(arguments)

\* tool check_availability
CallCheckAvailability ==
  \E arguments \in CheckArgs :
    \E r \in {CheckAvailability(arguments, calendar)} :
        /\ result' = [op |-> "check_availability", arguments |-> arguments, at |-> now,
                      error |-> r.error, available |-> r.available,
                      slots_for_day |-> r.slots_for_day, slots_in_day |-> r.slots_in_day]
        /\ UNCHANGED <<now, calendar, service, memory, offers, ticks, sessions, response, last, pending>>

NextSlots == CallListNextSlots \/ CallCheckAvailability

SpecSlots == InitSlots /\ [][NextSlots]_vars

(***************************************************************************)
(* Suggestion rotation: list_next_slots called by users while time passes  *)
(***************************************************************************)
\* calendars that leave one, two, three, five and many free slots in the lookahead window
MemoryCalendars ==
  { {ExtEvent(At(0, 8, 30, 0), At(0, 9, 30, 0)), ExtEvent(At(0, 11, 0, 0), At(FarDay, 0, 0, 0))},
    {ExtEvent(At(0, 10, 0, 0), At(0, 11, 0, 0)), ExtEvent(At(0, 11, 0, 0), At(FarDay, 0, 0, 0))},
    {ExtEvent(At(0, 11, 0, 0), At(FarDay, 0, 0, 0))},
    {ExtEvent(At(1, 15, 0, 0), At(FarDay, 0, 0, 0))},
    {} }

UserListArgs ==
  [block : {""}, desde : {NoDesde}, chat_id : {"", "u1"}, customer_number : {"", "u2"}]

InitMemory ==
  /\ service = "up"
  /\ now = At(0, 7, 15, 0)
  /\ calendar \in MemoryCalendars
  /\ InitRest

\* the clock advances
Tick ==
  /\ ticks < MaxTicks
  /\ \E d \in TickSteps : now' = now + d
  /\ ticks' = ticks + 1
  /\ UNCHANGED <<calendar, service, memory, result, offers, sessions, response, last, pending>>

\* a user asks for the next slots
UserListNextSlots ==
  /\ Len(offers) < MaxMem
  /\ \E arguments \in UserListArgs : ListCall(arguments)

NextMemory == Tick \/ UserListNextSlots

SpecMemory == InitMemory /\ [][NextMemory]_vars

(***************************************************************************)
(* Concurrent list_next_slots calls: a call reads the recent suggestions   *)
(* of its user key early (lines 379-381) and writes the memory at its end  *)
(* (lines 446-453); no lock covers the two, so another call may run in     *)
(* between.  'pending' holds the calls that have read and not yet written. *)
(***************************************************************************)
ListCallers == {"a", "b"}

MaxCalls == 2

KeyedListArgs == { arguments \in UserListArgs : UserKeyOf(arguments) # "" }

InitMemoryRace ==
  /\ service = "up"
  /\ now = At(0, 7, 15, 0)
  /\ calendar \in { {}, {ExtEvent(At(0, 11, 0, 0), At(FarDay, 0, 0, 0))} }
  /\ InitRest

\* list_next_slots up to the read of the recent suggestions (lines 362-381)
ListRead ==
  \E caller \in ListCallers : \E arguments \in KeyedListArgs :
    /\ \A c \in pending : c.caller # caller
    /\ Len(offers) + Cardinality(pending) < MaxCalls
    /\ pending' = pending \cup {[caller |-> caller, arguments |-> arguments, at |-> now,
                                 memory |-> memory, seen |-> Len(offers)]}
    /\ UNCHANGED <<now, calendar, service, memory, result, offers, ticks, sessions, response, last>>

\* lines 446-453 applied to the memory as it is when the call reaches them
WriteBack(mem, r, user_key, memory_now) ==
  LET mem1 == IF r.rotated THEN [mem EXCEPT ![user_key] = << >>] ELSE mem
  IN  IF r.suggested # NoSlot
        THEN RememberSuggestion(mem1, user_key, r.suggested.slot_start_iso, memory_now)
        ELSE mem1

\* list_next_slots from the slot search to the return (lines 383-460)
ListWrite ==
  \E c \in pending :
    \E r \in {ListNextSlots(c.arguments, c.at, calendar, c.memory)} :
      /\ memory' = WriteBack(memory, r, UserKeyOf(c.arguments), c.at)
      /\ pending' = pending \ {c}
      /\ result' = [op |-> "list_next_slots_return", arguments |-> c.arguments, at |-> c.at,
                    available_slots |-> r.available_slots, suggested |-> r.suggested]
      /\ offers' = IF r.suggested # NoSlot
                     THEN Append(offers, [user |-> UserKeyOf(c.arguments),
                                          slot |-> r.suggested.slot_start_iso,
                                          at |-> c.at, seen |-> c.seen])
                     ELSE offers
      /\ UNCHANGED <<now, calendar, service, ticks, sessions, response, last>>

NextMemoryRace == ListRead \/ ListWrite \/ Tick

SpecMemoryRace == InitMemoryRace /\ [][NextMemoryRace]_vars

(***************************************************************************)
(* Concurrent create_reservation calls: each call reads free/busy          *)
(* (check_availability) in one gateway request and inserts its event in a  *)
(* later one; requests of different calls interleave at the calendar.      *)
(***************************************************************************)
Callers == {"u1", "u2"}

RaceArgs(caller) ==
  [date : {0, 2},
   time : {8 * HourSecs, 8 * HourSecs + 30 * MinuteSecs, 9 * HourSecs,
           11 * HourSecs + 30 * MinuteSecs, 13 * HourSecs},
   name : {"Ana"}, customer_number : {caller}, reforma : {"cocina"}]

ServiceEvents(cal) == {e \in cal : e.by = "service"}

InitRace ==
  /\ service = "up"
  /\ now = At(0, 7, 15, 0)
  /\ calendar \in { {}, {ExtEvent(At(0, 10, 0, 0), At(0, 11, 0, 0))} }
  /\ InitRest

\* create_reservation up to the return of check_availability (lines 293-299)
CreateCheck ==
  \E caller \in Callers : \E arguments \in RaceArgs(caller) :
    \E decision \in {CreateDecision(arguments, calendar)} :
      /\ \A c \in pending : c.caller # caller
      /\ Cardinality(ServiceEvents(calendar)) + Cardinality(pending) < MaxBookings
      /\ pending' = IF decision.outcome = "insert"
                      THEN pending \cup {[caller |-> caller, arguments |-> arguments]}
                      ELSE pending
      /\ result' = [op |-> "create_check", arguments |-> arguments, at |-> now,
                    outcome |-> decision.outcome, error |-> decision.error]
      /\ UNCHANGED <<now, calendar, service, memory, offers, ticks, sessions, response, last>>

\* create_reservation from the events().insert request to its return (lines 301-328)
CreateInsert ==
  \E c \in pending :
    /\ calendar' = calendar \cup {EventBody(c.arguments)}
    /\ pending' = pending \ {c}
    /\ result' = [op |-> "create_reservation", arguments |-> c.arguments, at |-> now,
                  created |-> TRUE, error |-> NoError]
    /\ UNCHANGED <<now, service, memory, offers, ticks, sessions, response, last>>

NextRace == CreateCheck \/ CreateInsert

SpecRace == InitRace /\ [][NextRace]_vars

\* C3: under any interleaving of create_reservation calls of different users, the
\* calendar never holds two events created by this service whose [start, end) windows overlap
C3_NoDoubleBooking ==
  \A e1 \in ServiceEvents(calendar) : \A e2 \in ServiceEvents(calendar) :
    e1 # e2 => ~ (e1.start < e2.end /\ e1.end > e2.start)

(***************************************************************************)
(* Session store (helpers/whatsapp_db.py): one row per phone               *)
(***************************************************************************)
STATE_IDLE == "IDLE"
STATE_DATE_PICK == "DATE_PICK"
STATE_DATE_FREEFORM == "DATE_FREEFORM"
STATE_WAITING_NAME == "WAITING_NAME"
STATE_WAITING_EMAIL == "WAITING_EMAIL"
STATE_WAITING_ADDRESS == "WAITING_ADDRESS"
STATE_WAITING_CONFIRMATION == "WAITING_CONFIRMATION"
STATE_WAITING_DESCRIPTION == "WAITING_DESCRIPTION"

States ==
  { STATE_IDLE, STATE_DATE_PICK, STATE_DATE_FREEFORM, STATE_WAITING_NAME, STATE_WAITING_EMAIL,
    STATE_WAITING_ADDRESS, STATE_WAITING_DESCRIPTION, STATE_WAITING_CONFIRMATION }

NAME_MIN_LEN == 3
NAME_MAX_LEN == 60
\* an address limit one character longer (variant)
AddressMaxLenLonger == 120 + 1
ADDRESS_MAX_LEN == 120
DESCRIPTION_MAX_LEN == 300
\* a booking horizon one day longer (variant)
MaxBookingDaysLonger == 90 + 1
MAX_BOOKING_DAYS == 90

\* a data map is a function from a set of keys; {} is the function with no key
EmptyData == [k \in {} |-> TRUE]
Put(data, key, value) == [k \in DOMAIN data \cup {key} |-> IF k = key THEN value ELSE data[k]]
Has(data, key) == key \in DOMAIN data

\* json.dumps(data): the text of the data_json column; a value is written as a JSON
\* array (the slot list), true/false (a flag) or a JSON string (every other field)
JsonDumps(data) ==
  [k \in DOMAIN data |->
     IF k = "slots" THEN [type |-> "array", items |-> data[k], chars |-> ""]
     ELSE IF k \in {"menu_shown", "info_mode"}
       THEN [type |-> IF data[k] THEN "true" ELSE "false", items |-> << >>, chars |-> ""]
     ELSE [type |-> "string", items |-> << >>, chars |-> data[k]]]

\* json.loads that reads every array as an empty list (variant)
JsonLoadsNoItems(data_json) ==
  [k \in DOMAIN data_json |->
     IF data_json[k].type = "array" THEN << >>
     ELSE IF data_json[k].type = "string" THEN data_json[k].chars
     ELSE data_json[k].type = "true"]

\* json.loads(data_json)
JsonLoads(data_json) ==
  [k \in DOMAIN data_json |->
     IF data_json[k].type = "array" THEN data_json[k].items
     ELSE IF data_json[k].type = "string" THEN data_json[k].chars
     ELSE data_json[k].type = "true"]

\* load_state(phone, default_state)
LoadState(store, phone) ==
  IF phone \in DOMAIN store
    THEN [state |-> store[phone].state, data |-> JsonLoads(store[phone].data_json)]
    ELSE [state |-> STATE_IDLE, data |-> EmptyData]

\* save_state that keeps an existing row (variant: ON CONFLICT DO NOTHING)
SaveStateKeep(store, phone, state, data) ==
  IF phone \in DOMAIN store THEN store
  ELSE [p \in DOMAIN store \cup {phone} |->
          IF p = phone THEN [state |-> state, data_json |-> JsonDumps(data)] ELSE store[p]]

\* save_state that replaces the state of an existing row and keeps its data (variant)
SaveStateOnlyState(store, phone, state, data) ==
  [p \in DOMAIN store \cup {phone} |->
     IF p # phone THEN store[p]
     ELSE IF phone \in DOMAIN store THEN [state |-> state, data_json |-> store[phone].data_json]
     ELSE [state |-> state, data_json |-> JsonDumps(data)]]

\* save_state that empties the table before it writes the row (variant)
SaveStateAlone(store, phone, state, data) ==
  [p \in {phone} |-> [state |-> state, data_json |-> JsonDumps(data)]]

\* save_state(phone, state, data): insert or replace the row of the phone
SaveState(store, phone, state, data) ==
  [p \in DOMAIN store \cup {phone} |->
     IF p = phone THEN [state |-> state, data_json |-> JsonDumps(data)] ELSE store[p]]

\* reset_state(phone, default_state)
ResetState(store, phone) == SaveState(store, phone, STATE_IDLE, EmptyData)

(***************************************************************************)
(* Inbound texts.  Dates are written for a calendar in which day 0 is      *)
(* Monday 05-01-2026; the three bracketed texts stand for texts of 61, 121 *)
(* and 301 characters.                                                     *)
(***************************************************************************)
Bodies ==
  { "1", "2", "3", "4", "5", "0", "MENU", " ", "ab", "a@b.co",
    "04-01-2026", "05-01-2026", "05-04-2026", "06-04-2026",
    "<61 chars>", "<121 chars>", "<301 chars>" }

\* the texts sent while a field is awaited: blank, the two menu words, and texts on
\* both sides of the field's test
BodiesFor(state) ==
  CASE state = STATE_WAITING_NAME -> {" ", "0", "MENU", "ab", "<61 chars>"}
    [] state = STATE_WAITING_EMAIL -> {" ", "0", "MENU", "a@b", "a@b.co"}
    [] state = STATE_WAITING_ADDRESS -> {" ", "0", "MENU", "<121 chars>"}
    [] state = STATE_WAITING_DESCRIPTION -> {" ", "0", "MENU", "<301 chars>"}
    [] OTHER -> Bodies

\* str.strip()
Strip(body) == IF body = " " THEN "" ELSE body

\* len(text)
TextLen(text) ==
  CASE text = "<61 chars>" -> 61
    [] text = "<121 chars>" -> 121
    [] text = "<301 chars>" -> 301
    [] OTHER -> Len(text)

\* str.lower()
Lower(text) == IF text = "MENU" THEN "menu" ELSE text

\* the texts of the model of the form local@domain.tld
EmailTexts == {"a@b.co"}

\* the pattern test read as accepting every text (variant)
IsEmailAny(text) == TRUE

\* re.match(r"^[^@\s]+@[^@\s]+\.[^@\s]+$", text)
IsEmail(text) == text \in EmailTexts

\* parse_ddmmyyyy(text): the day number, or NoDate when strptime fails
ParseDate(text) ==
  CASE text = "04-01-2026" -> 0 - 1
    [] text = "05-01-2026" -> 0
    [] text = "05-04-2026" -> 90
    [] text = "06-04-2026" -> 91
    [] OTHER -> NoDate
IsDate(text) == text \in {"04-01-2026", "05-01-2026", "05-04-2026", "06-04-2026"}

\* the menu-reset vocabulary (MENU_COMMANDS of app/api/whatsapp.py), without its two
\* accented spellings, which no text of Bodies lowers to
MENU_COMMANDS == {"0", "menu", "principal", "menu principal"}

\* dt.strftime("%d-%m-%Y %H:%M"): the day and the minute of an instant, seconds dropped
FormatSlot(dt) == [date |-> DateOf(dt), hour |-> HourOf(dt), minute |-> MinuteOf(dt)]

\* the value of data.get("chosen_slot", "") when the key is missing: not a slot text
NoChosen == [date |-> NoDate, hour |-> 0, minute |-> 0]

\* _parse_slot_ddmmyyyy_hhmm(slot): (date_iso, time_hhmm) or None
ParseSlot(slot) ==
  IF slot = NoChosen THEN [ok |-> FALSE, date |-> NoDate, time |-> NoTime]
  ELSE [ok |-> TRUE, date |-> slot.date, time |-> slot.hour * HourSecs + slot.minute * MinuteSecs]

(***************************************************************************)
(* Dialog handler (app/services/whatsapp.py)                               *)
(* An outcome is what one call of handle_whatsapp_message does: the        *)
(* session write it performs (at most one on every path), the messages of  *)
(* its response, whether it ends by raising, the calendar afterwards,      *)
(* which gateway calls it made, the order of its gateway call and session  *)
(* write (effects) and the arguments it passed to create_reservation.      *)
(***************************************************************************)
\* no create_reservation call was made
NoRequest == [date |-> NoDate, time |-> NoTime, name |-> "", customer_number |-> "", reforma |-> ""]

Msg(kind) == [kind |-> kind, slots |-> << >>]

\* build_slot_menu(resp, slots): the message listing formatted[0..2] and options 4 and 5
SlotMenu(slots) == [kind |-> "SLOT_MENU", slots |-> SubSeq(slots, 1, 3)]

NoWrite(cal, messages) ==
  [write |-> FALSE, state |-> STATE_IDLE, data |-> EmptyData, response |-> messages,
   raised |-> FALSE, cal |-> cal, fetch |-> "none", booking |-> "none",
   effects |-> << >>, request |-> NoRequest]

Write(cal, state, data, messages) ==
  [write |-> TRUE, state |-> state, data |-> data, response |-> messages,
   raised |-> FALSE, cal |-> cal, fetch |-> "none", booking |-> "none",
   effects |-> << "write" >>, request |-> NoRequest]

\* _fetch_slots, lines 102-117: format the listed slots, raise on none, keep three
FormatFetched(slots_raw) ==
  LET slots == [i \in 1..Len(slots_raw) |-> FormatSlot(slots_raw[i].slot_start_iso)]
  IN  IF slots = << >> THEN [error |-> "NO_SLOTS", slots |-> << >>]
      ELSE [error |-> NoError, slots |-> FirstN(slots, 3)]

\* _fetch_slots(from_date): up to three formatted slots, or the raised exception.
\* gw = "fail" is a gateway request that raises (HttpError, timeout).
FetchSlots(from_date, t, cal, svc, gw, mem) ==
  IF svc = "none" THEN [error |-> "SERVICE_UNAVAILABLE", slots |-> << >>]
  ELSE IF gw = "fail" THEN [error |-> "RAW_EXCEPTION", slots |-> << >>]
  ELSE FormatFetched(ListNextSlots([block |-> "", desde |-> DateDesde(from_date),
                                    chat_id |-> "", customer_number |-> ""],
                                   t, cal, mem).available_slots)

\* the tail of the fetch sites with the reset of the except branch left out (variant)
AfterFetchKeep(fetched, cal) ==
  IF fetched.error # NoError
    THEN [NoWrite(cal, << Msg(fetched.error), Msg("MENU") >>)
            EXCEPT !.fetch = fetched.error,
                   !.effects = IF fetched.error = "SERVICE_UNAVAILABLE" THEN << >>
                               ELSE << "gateway" >>]
  ELSE IF Len(fetched.slots) < 3
    THEN [Write(cal, STATE_DATE_PICK, Put(EmptyData, "slots", fetched.slots), << >>)
            EXCEPT !.fetch = "ok", !.raised = TRUE, !.effects = << "gateway", "write" >>]
  ELSE [Write(cal, STATE_DATE_PICK, Put(EmptyData, "slots", fetched.slots),
              << SlotMenu(fetched.slots) >>)
            EXCEPT !.fetch = "ok", !.effects = << "gateway", "write" >>]

\* the common tail of the three fetch sites: reset and menu on an exception, else
\* save DATE_PICK and build the slot menu, which raises IndexError below three slots
AfterFetch(fetched, cal) ==
  IF fetched.error # NoError
    THEN [Write(cal, STATE_IDLE, EmptyData, << Msg(fetched.error), Msg("MENU") >>)
            EXCEPT !.fetch = fetched.error,
                   !.effects = IF fetched.error = "SERVICE_UNAVAILABLE" THEN << "write" >>
                               ELSE << "gateway", "write" >>]
  ELSE IF Len(fetched.slots) < 3
    THEN [Write(cal, STATE_DATE_PICK, Put(EmptyData, "slots", fetched.slots), << >>)
            EXCEPT !.fetch = "ok", !.raised = TRUE, !.effects = << "gateway", "write" >>]
  ELSE [Write(cal, STATE_DATE_PICK, Put(EmptyData, "slots", fetched.slots),
              << SlotMenu(fetched.slots) >>)
            EXCEPT !.fetch = "ok", !.effects = << "gateway", "write" >>]

\* render_state_prompt(resp, state, data)
RenderStatePrompt(state, data) ==
  IF state = STATE_IDLE THEN Msg("MENU")
  ELSE IF state = STATE_DATE_PICK
    THEN IF Has(data, "slots") /\ Len(data["slots"]) >= 3 THEN SlotMenu(data["slots"]) ELSE Msg("MENU")
  ELSE IF state = STATE_WAITING_CONFIRMATION THEN Msg("CONFIRM_SUMMARY")
  ELSE IF state = STATE_DATE_FREEFORM THEN Msg("DATE_PROMPT")
  ELSE IF state = STATE_WAITING_NAME THEN Msg("NAME_PROMPT")
  ELSE IF state = STATE_WAITING_EMAIL THEN Msg("EMAIL_PROMPT")
  ELSE IF state = STATE_WAITING_ADDRESS THEN Msg("ADDRESS_PROMPT")
  ELSE IF state = STATE_WAITING_DESCRIPTION THEN Msg("DESCRIPTION_PROMPT")
  ELSE Msg("MENU")

\* VALID_CHOICES
ValidChoices(state) ==
  IF state = STATE_IDLE THEN {"1", "2", "3"}
  ELSE IF state = STATE_DATE_PICK THEN {"1", "2", "3", "4", "5"}
  ELSE IF state = STATE_WAITING_CONFIRMATION THEN {"1", "2", "3"}
  ELSE {}

\* require_choice(resp, state, text, data): whether the text is returned (not None)
ChoiceOk(state, text) ==
  IF state \notin {STATE_IDLE, STATE_DATE_PICK, STATE_WAITING_CONFIRMATION} THEN TRUE
  ELSE text \in ValidChoices(state)

\* the menu_shown test read as never set (variant)
MenuShownNever(data) == FALSE

\* data.get("menu_shown")
MenuShown(data) == Has(data, "menu_shown") /\ data["menu_shown"]

\* the IDLE branch whose choice "2" opens an info-mode confirmation session (variant)
HandleIdleInfoMode(text, data, t, cal, svc, gw, mem) ==
  IF text \notin {"1", "2", "3"}
    THEN IF MenuShown(data)
           THEN NoWrite(cal, << Msg("INVALID_OPTION"), Msg("MENU") >>)
           ELSE Write(cal, STATE_IDLE, Put(data, "menu_shown", TRUE), << Msg("MENU") >>)
  ELSE IF text = "1" THEN AfterFetch(FetchSlots(DateOf(t) + 1, t, cal, svc, gw, mem), cal)
  ELSE IF text = "2"
    THEN Write(cal, STATE_WAITING_CONFIRMATION, Put(EmptyData, "info_mode", TRUE), << Msg("INFO") >>)
  ELSE Write(cal, STATE_IDLE, EmptyData, << Msg("CALCULATOR") >>)

\* the IDLE branch
HandleIdle(text, data, t, cal, svc, gw, mem) ==
  IF text \notin {"1", "2", "3"}
    THEN IF MenuShown(data)
           THEN NoWrite(cal, << Msg("INVALID_OPTION"), Msg("MENU") >>)
           ELSE Write(cal, STATE_IDLE, Put(data, "menu_shown", TRUE), << Msg("MENU") >>)
  ELSE IF text = "1" THEN AfterFetch(FetchSlots(DateOf(t) + 1, t, cal, svc, gw, mem), cal)
  ELSE IF text = "2" THEN Write(cal, STATE_IDLE, EmptyData, << Msg("INFO") >>)
  ELSE Write(cal, STATE_IDLE, EmptyData, << Msg("CALCULATOR") >>)

\* int(choice) - 1 read as always the first slot (variant)
ChoiceIndexFirst(choice) == 1

\* int(choice) - 1, as a position counted from 1
ChoiceIndex(choice) == IF choice = "1" THEN 1 ELSE IF choice = "2" THEN 2 ELSE 3

\* the reply to a pick among fewer than three slots with the reset left out (variant)
NoSlotsStay(cal) == NoWrite(cal, << Msg("NO_SLOTS_APOLOGY"), Msg("MENU") >>)

\* a pick among fewer than three slots: apology, reset_state, menu (lines 310-313)
NoSlotsReset(cal) == Write(cal, STATE_IDLE, EmptyData, << Msg("NO_SLOTS_APOLOGY"), Msg("MENU") >>)

\* the DATE_PICK branch
HandleDatePick(text, data, cal) ==
  LET slots == IF Has(data, "slots") THEN data["slots"] ELSE << >>
  IN  IF ~ ChoiceOk(STATE_DATE_PICK, text)
        THEN NoWrite(cal, << Msg("INVALID_OPTION"),
                             RenderStatePrompt(STATE_DATE_PICK, Put(EmptyData, "slots", slots)) >>)
      ELSE IF text \in {"1", "2", "3"}
        THEN IF Len(slots) < 3
               THEN NoSlotsReset(cal)
               ELSE Write(cal, STATE_WAITING_NAME,
                          Put(EmptyData, "chosen_slot", slots[ChoiceIndex(text)]),
                          << Msg("CHOSEN_NAME_PROMPT") >>)
      ELSE IF text = "4"
        THEN Write(cal, STATE_DATE_FREEFORM, EmptyData, << RenderStatePrompt(STATE_DATE_FREEFORM, EmptyData) >>)
      ELSE IF text = "5"
        THEN Write(cal, STATE_IDLE, EmptyData, << Msg("MENU") >>)
      ELSE NoWrite(cal, << Msg("INVALID_OPTION"), SlotMenu(slots) >>)

\* the DATE_FREEFORM branch
HandleDateFreeform(text, t, cal, svc, gw, mem) ==
  LET parsed == ParseDate(text)
  IN  IF IsDate(text)
        THEN IF parsed < DateOf(t)
               THEN NoWrite(cal, << Msg("DATE_PAST"), Msg("DATE_PROMPT") >>)
             ELSE IF parsed > DateOf(t) + MAX_BOOKING_DAYS
               THEN NoWrite(cal, << Msg("DATE_TOO_FAR"), Msg("DATE_PROMPT") >>)
             ELSE AfterFetch(FetchSlots(parsed, t, cal, svc, gw, mem), cal)
        ELSE NoWrite(cal, << Msg("DATE_FORMAT"), Msg("DATE_PROMPT") >>)

\* the length test of WAITING_NAME with the lower limit dropped (variant)
NameLengthNoMin(text) == TextLen(text) <= NAME_MAX_LEN

\* the length test of WAITING_NAME
NameLengthOk(text) == NAME_MIN_LEN <= TextLen(text) /\ TextLen(text) <= NAME_MAX_LEN

\* the WAITING_NAME branch
HandleName(text, data, cal) ==
  IF text = "" THEN NoWrite(cal, << Msg("NAME_EMPTY"), RenderStatePrompt(STATE_WAITING_NAME, data) >>)
  ELSE IF ~ NameLengthOk(text)
    THEN NoWrite(cal, << Msg("NAME_LENGTH"), RenderStatePrompt(STATE_WAITING_NAME, data) >>)
  ELSE Write(cal, STATE_WAITING_EMAIL, Put(data, "name", text),
             << RenderStatePrompt(STATE_WAITING_EMAIL, data) >>)

\* the WAITING_EMAIL branch that asks for the description next (variant)
HandleEmailSkipAddress(text, data, cal) ==
  IF text = "" THEN NoWrite(cal, << Msg("EMAIL_EMPTY"), RenderStatePrompt(STATE_WAITING_EMAIL, data) >>)
  ELSE IF ~ IsEmail(text)
    THEN NoWrite(cal, << Msg("EMAIL_INVALID"), RenderStatePrompt(STATE_WAITING_EMAIL, data) >>)
  ELSE Write(cal, STATE_WAITING_DESCRIPTION, Put(data, "email", text),
             << RenderStatePrompt(STATE_WAITING_DESCRIPTION, data) >>)

\* the WAITING_EMAIL branch
HandleEmail(text, data, cal) ==
  IF text = "" THEN NoWrite(cal, << Msg("EMAIL_EMPTY"), RenderStatePrompt(STATE_WAITING_EMAIL, data) >>)
  ELSE IF ~ IsEmail(text)
    THEN NoWrite(cal, << Msg("EMAIL_INVALID"), RenderStatePrompt(STATE_WAITING_EMAIL, data) >>)
  ELSE Write(cal, STATE_WAITING_ADDRESS, Put(data, "email", text),
             << RenderStatePrompt(STATE_WAITING_ADDRESS, data) >>)

\* the WAITING_ADDRESS branch
HandleAddress(text, data, cal) ==
  IF text = "" THEN NoWrite(cal, << Msg("ADDRESS_EMPTY"), RenderStatePrompt(STATE_WAITING_ADDRESS, data) >>)
  ELSE IF TextLen(text) > ADDRESS_MAX_LEN
    THEN NoWrite(cal, << Msg("ADDRESS_LENGTH"), RenderStatePrompt(STATE_WAITING_ADDRESS, data) >>)
  ELSE Write(cal, STATE_WAITING_DESCRIPTION, Put(data, "address", text),
             << RenderStatePrompt(STATE_WAITING_DESCRIPTION, data) >>)

\* the WAITING_DESCRIPTION branch
HandleDescription(text, data, cal) ==
  IF text = "" THEN NoWrite(cal, << Msg("DESCRIPTION_EMPTY"), RenderStatePrompt(STATE_WAITING_DESCRIPTION, data) >>)
  ELSE IF TextLen(text) > DESCRIPTION_MAX_LEN
    THEN NoWrite(cal, << Msg("DESCRIPTION_LENGTH"), RenderStatePrompt(STATE_WAITING_DESCRIPTION, data) >>)
  ELSE Write(cal, STATE_WAITING_CONFIRMATION, Put(data, "description", text),
             << RenderStatePrompt(STATE_WAITING_CONFIRMATION, Put(data, "description", text)) >>)

\* the arguments of create_reservation built at confirmation
BookingArguments(phone, data, parsed_slot) ==
  [date |-> parsed_slot.date,
   time |-> parsed_slot.time,
   name |-> IF Has(data, "name") THEN data["name"] ELSE "Invitado",
   customer_number |-> IF phone # "" THEN phone ELSE "No proporcionado",
   reforma |-> IF Has(data, "description") THEN data["description"] ELSE "No especificada"]

\* the reply to a booking that was not created, with the reset left out (variant)
BookingFailedKeep(cal, kind) == NoWrite(cal, << Msg(kind), Msg("MENU") >>)

\* reset_state, then the reply to a booking that was not created (lines 493, 502-504)
BookingFailed(cal, kind) == Write(cal, STATE_IDLE, EmptyData, << Msg(kind), Msg("MENU") >>)

\* choice "1" of WAITING_CONFIRMATION: submit the booking, reset, report
ConfirmBooking(phone, data, cal, svc, gw) ==
  LET slot_raw == IF Has(data, "chosen_slot") THEN data["chosen_slot"] ELSE NoChosen
      parsed_slot == ParseSlot(slot_raw)
      arguments == BookingArguments(phone, data, parsed_slot)
      created_reply == CreateReservation(arguments, cal)
  IN  IF ~ parsed_slot.ok \/ svc = "none"
        THEN [Write(cal, STATE_IDLE, EmptyData, << Msg("BOOKING_FAILED_RETRY"), Msg("MENU") >>)
                EXCEPT !.booking = "unavailable"]
      ELSE IF gw = "fail"
        THEN [BookingFailed(cal, "BOOKING_FAILED_RAW_EXCEPTION")
                EXCEPT !.booking = "gateway_error", !.request = arguments,
                       !.effects = << "gateway", "write" >>]
      ELSE IF created_reply.error # NoError
        THEN [BookingFailed(cal, "BOOKING_FAILED_VALUE_ERROR")
                EXCEPT !.booking = "value_error", !.request = arguments]
      ELSE IF ~ created_reply.created
        THEN [BookingFailed(cal, "BOOKING_FAILED_REGISTERED")
                EXCEPT !.booking = "not_available", !.request = arguments,
                       !.effects = << "gateway", "write" >>]
      ELSE [Write(created_reply.calendar, STATE_IDLE, EmptyData, << Msg("BOOKING_CONFIRMED") >>)
                EXCEPT !.booking = "created", !.request = arguments,
                       !.effects = << "gateway", "write" >>]

\* the data saved by choice "2" with the collected fields kept (variant)
CorrectionDataKeep(data) == data

\* the data saved by choice "2": {"chosen_slot": data.get("chosen_slot", "")}
CorrectionData(data) ==
  Put(EmptyData, "chosen_slot", IF Has(data, "chosen_slot") THEN data["chosen_slot"] ELSE NoChosen)

\* the WAITING_CONFIRMATION branch
HandleConfirmation(phone, text, data, t, cal, svc, gw, mem) ==
  IF Has(data, "info_mode") /\ data["info_mode"]
    THEN IF text \notin {"1", "2"}
           THEN NoWrite(cal, << Msg("INVALID_OPTION"), Msg("INFO_CHOICES") >>)
         ELSE IF text = "1"
           THEN AfterFetch(FetchSlots(DateOf(t) + 1, t, cal, svc, gw, mem), cal)
         ELSE Write(cal, STATE_IDLE, EmptyData, << Msg("MENU") >>)
  ELSE IF ~ ChoiceOk(STATE_WAITING_CONFIRMATION, text)
    THEN NoWrite(cal, << Msg("INVALID_OPTION"), RenderStatePrompt(STATE_WAITING_CONFIRMATION, data) >>)
  ELSE IF text = "1" THEN ConfirmBooking(phone, data, cal, svc, gw)
  ELSE IF text = "2"
    THEN Write(cal, STATE_WAITING_NAME, CorrectionData(data), << Msg("CORRECT_NAME_PROMPT") >>)
  ELSE IF text = "3"
    THEN Write(cal, STATE_IDLE, EmptyData, << Msg("CANCELLED"), Msg("MENU") >>)
  ELSE NoWrite(cal, << Msg("INVALID_OPTION"), RenderStatePrompt(STATE_WAITING_CONFIRMATION, data) >>)

\* handle_whatsapp_message(from_number, body) on the loaded session
Handle(phone, text, session, t, cal, svc, gw, mem) ==
  LET state == session.state
      data == session.data
  IN  IF state = STATE_IDLE THEN HandleIdle(text, data, t, cal, svc, gw, mem)
      ELSE IF state = STATE_DATE_PICK THEN HandleDatePick(text, data, cal)
      ELSE IF state = STATE_DATE_FREEFORM THEN HandleDateFreeform(text, t, cal, svc, gw, mem)
      ELSE IF state = STATE_WAITING_NAME THEN HandleName(text, data, cal)
      ELSE IF state = STATE_WAITING_EMAIL THEN HandleEmail(text, data, cal)
      ELSE IF state = STATE_WAITING_ADDRESS THEN HandleAddress(text, data, cal)
      ELSE IF state = STATE_WAITING_DESCRIPTION THEN HandleDescription(text, data, cal)
      ELSE IF state = STATE_WAITING_CONFIRMATION
        THEN HandleConfirmation(phone, text, data, t, cal, svc, gw, mem)
      ELSE Write(cal, STATE_IDLE, EmptyData, << Msg("MENU") >>)

(***************************************************************************)
(* The dialog of one user, one message at a time                           *)
(***************************************************************************)
DialogPhones == {"p1"}
Gateway == {"ok", "fail"}

\* calendars that leave many, two and no free slots from tomorrow on
DialogCalendars ==
  { {},
    {ExtEvent(At(1, 16, 0, 0), At(FarDay, 0, 0, 0))},
    {ExtEvent(At(0, 0, 0, 0), At(FarDay, 0, 0, 0))} }

\* what another writer of the shared calendar books while the dialog runs
RivalEvent == ExtEvent(At(1, 14, 0, 0), At(1, 15, 0, 0))

InitDialog ==
  /\ now = At(0, 7, 15, 0)
  /\ calendar \in DialogCalendars
  /\ service \in {"up", "none"}
  /\ InitRest

\* history: whether an invalid input was handled in IDLE since the session was last
\* reset (or first created); it is only kept while the session stays IDLE
IdleInvalidSeen == IF last.op = "none" THEN FALSE ELSE last.invalid_seen

InvalidSeenAfter(session, text, out) ==
  IF out.write /\ out.state = STATE_IDLE /\ out.data = EmptyData THEN FALSE
  ELSE IF out.write /\ out.state # STATE_IDLE THEN FALSE
  ELSE IF session.state = STATE_IDLE /\ text \notin {"1", "2", "3"} THEN TRUE
  ELSE IdleInvalidSeen

\* history: the states entered since the session last entered WAITING_NAME, in the order
\* of entry; empty while the session is outside the data collection
CollectionStates ==
  {STATE_WAITING_NAME, STATE_WAITING_EMAIL, STATE_WAITING_ADDRESS,
   STATE_WAITING_DESCRIPTION, STATE_WAITING_CONFIRMATION}

PathBefore == IF last.op = "none" THEN << >> ELSE last.path

PathAfter(session, out) ==
  IF ~ out.write \/ out.state = session.state THEN PathBefore
  ELSE IF out.state = STATE_WAITING_NAME THEN << STATE_WAITING_NAME >>
  ELSE IF out.state \in CollectionStates THEN Append(PathBefore, out.state)
  ELSE << >>

\* one inbound message of a phone handled from load_state to the response
HandleMessageOf(phone) ==
  \E body \in BodiesFor(LoadState(sessions, phone).state) : \E gw \in Gateway :
    LET text == Strip(body)
        session == LoadState(sessions, phone)
    IN  \E out \in {Handle(phone, text, session, now, calendar, service, gw, memory)} :
          /\ Cardinality(ServiceEvents(calendar)) < MaxDialogBookings
          /\ sessions' = IF out.write THEN SaveState(sessions, phone, out.state, out.data) ELSE sessions
          /\ calendar' = out.cal
          /\ response' = out.response
          /\ last' = [op |-> "message", phone |-> phone, text |-> text, before |-> session,
                      wrote |-> out.write, raised |-> out.raised,
                      fetch |-> out.fetch, booking |-> out.booking,
                      effects |-> out.effects, request |-> out.request,
                      calendar_before |-> calendar,
                      store_before |-> sessions,
                      invalid_before |-> IdleInvalidSeen,
                      invalid_seen |-> InvalidSeenAfter(session, text, out),
                      path |-> PathAfter(session, out)]
          /\ UNCHANGED <<now, service, memory, result, offers, pending>>

\* a message of the one user of the dialog
HandleMessage ==
  /\ \E phone \in DialogPhones : HandleMessageOf(phone)
  /\ UNCHANGED ticks

\* another writer books a slot of the shared calendar
RivalBooking ==
  /\ RivalEvent \notin calendar
  /\ Cardinality(ServiceEvents(calendar)) < MaxDialogBookings
  /\ calendar' = calendar \cup {RivalEvent}
  /\ UNCHANGED <<now, service, memory, result, offers, ticks, sessions, response, last, pending>>

\* _get_reservation_service() between two messages: a missing service is built when
\* the credentials load, and a restarted process may fail to build the one it had
ServiceChange ==
  /\ Cardinality(ServiceEvents(calendar)) < MaxDialogBookings
  /\ service' \in {"up", "none"} \ {service}
  /\ UNCHANGED <<now, calendar, memory, result, offers, ticks, sessions, response, last, pending>>

NextDialog == HandleMessage \/ RivalBooking \/ ServiceChange

SpecDialog == InitDialog /\ [][NextDialog]_vars

(***************************************************************************)
(* Two handlers serving the same phone from different workers: each loads  *)
(* the session (lines 248-258) and later finishes, writing through         *)
(* save_state or reset_state; nothing orders the two around the store.     *)
(* 'pending' holds the handlers that have loaded and not yet finished and  *)
(* 'offers' logs the finished ones in the order of their finish.           *)
(***************************************************************************)
DialogHandlers == {"h1", "h2"}

MaxMessages == 2

\* sessions the dialog stores on its way to a booking: all fields but the description
\* collected, and all fields collected
CollectedBeforeDescription ==
  Put(Put(Put(Put(EmptyData, "chosen_slot", FormatSlot(At(1, 14, 0, 0))), "name", "MENU"),
          "email", "a@b.co"), "address", "0")

StartSessions ==
  { [state |-> STATE_WAITING_DESCRIPTION, data |-> CollectedBeforeDescription],
    [state |-> STATE_WAITING_CONFIRMATION, data |-> Put(CollectedBeforeDescription, "description", "0")] }

InitHandlers ==
  /\ now = At(0, 7, 15, 0)
  /\ calendar = {}
  /\ service = "up"
  /\ sessions \in {EmptyMap} \cup { SaveState(EmptyMap, "p1", s.state, s.data) : s \in StartSessions }
  /\ memory = [u \in UserKeys |-> << >>]
  /\ result = NoResult
  /\ offers = << >>
  /\ ticks = 0
  /\ response = << >>
  /\ last = NoResult
  /\ pending = {}

\* handle_whatsapp_message up to the return of load_state
HandlerLoad ==
  \E h \in DialogHandlers : \E phone \in DialogPhones :
    \E body \in BodiesFor(LoadState(sessions, phone).state) :
      /\ \A c \in pending : c.handler # h
      /\ Len(offers) + Cardinality(pending) < MaxMessages
      /\ pending' = pending \cup {[handler |-> h, phone |-> phone, text |-> Strip(body),
                                   session |-> LoadState(sessions, phone), seen |-> Len(offers),
                                   checked |-> FALSE, cal |-> {}]}
      /\ UNCHANGED <<now, calendar, service, memory, result, offers, ticks, sessions, response, last>>

\* the handler is on its way to create_reservation (choice "1" of the confirmation)
Books(c) == c.session.state = STATE_WAITING_CONFIRMATION /\ c.text = "1"

\* create_reservation up to the return of its free/busy request (lines 293-299): the
\* handler keeps the calendar content it was answered with
HandlerCheck ==
  \E c \in pending :
    /\ Books(c)
    /\ ~ c.checked
    /\ pending' = (pending \ {c}) \cup {[c EXCEPT !.checked = TRUE, !.cal = calendar]}
    /\ UNCHANGED <<now, calendar, service, memory, result, offers, ticks, sessions, response, last>>

\* handle_whatsapp_message from the loaded session to the response; a booking handler
\* decides on the free/busy answer it got and its insert adds the event to the calendar
HandlerFinish ==
  \E c \in pending : \E gw \in Gateway :
    LET seen_cal == IF Books(c) THEN c.cal ELSE calendar
    IN  \E out \in {Handle(c.phone, c.text, c.session, now, seen_cal, service, gw, memory)} :
          /\ Books(c) => c.checked
          /\ sessions' = IF out.write THEN SaveState(sessions, c.phone, out.state, out.data) ELSE sessions
          /\ calendar' = calendar \cup (out.cal \ seen_cal)
          /\ response' = out.response
          /\ pending' = pending \ {c}
          /\ offers' = Append(offers, [handler |-> c.handler, phone |-> c.phone, text |-> c.text,
                                       loaded |-> c.session, seen |-> c.seen, wrote |-> out.write,
                                       saved |-> [state |-> out.state, data |-> out.data],
                                       booking |-> out.booking])
          /\ UNCHANGED <<now, service, memory, result, ticks, last>>

NextHandlers == HandlerLoad \/ HandlerCheck \/ HandlerFinish

SpecHandlers == InitHandlers /\ [][NextHandlers]_vars

(***************************************************************************)
(* The session store called on its own: save_state, reset_state and        *)
(* load_state for two phones.  'offers' logs the writes in their order,    *)
(* 'last' keeps the store as it was before the latest write and 'result'   *)
(* what the latest load_state returned.                                    *)
(***************************************************************************)
StorePhones == {"p1", "p2"}

StoreStates == {STATE_IDLE, STATE_DATE_PICK, STATE_WAITING_NAME}

StoreData ==
  { EmptyData,
    Put(EmptyData, "menu_shown", TRUE),
    Put(EmptyData, "slots", << FormatSlot(At(1, 14, 0, 0)), FormatSlot(At(1, 15, 0, 0)) >>),
    Put(Put(EmptyData, "chosen_slot", FormatSlot(At(1, 14, 0, 0))), "name", "Ana") }

MaxStoreWrites == 2

InitStore ==
  /\ now = At(0, 7, 15, 0)
  /\ calendar = {}
  /\ service = "up"
  /\ InitRest

\* save_state(phone, state, data)
StoreSave ==
  \E phone \in StorePhones : \E state \in StoreStates : \E data \in StoreData :
    /\ Len(offers) < MaxStoreWrites
    /\ sessions' = SaveState(sessions, phone, state, data)
    /\ offers' = Append(offers, [op |-> "save_state", phone |-> phone, state |-> state, data |-> data])
    /\ last' = [op |-> "save_state", phone |-> phone, store_before |-> sessions]
    /\ UNCHANGED <<now, calendar, service, memory, result, ticks, response, pending>>

\* reset_state(phone)
StoreReset ==
  \E phone \in StorePhones :
    /\ Len(offers) < MaxStoreWrites
    /\ sessions' = ResetState(sessions, phone)
    /\ offers' = Append(offers, [op |-> "reset_state", phone |-> phone,
                                 state |-> STATE_IDLE, data |-> EmptyData])
    /\ last' = [op |-> "reset_state", phone |-> phone, store_before |-> sessions]
    /\ UNCHANGED <<now, calendar, service, memory, result, ticks, response, pending>>

\* load_state(phone)
StoreLoad ==
  \E phone \in StorePhones :
    /\ result' = [op |-> "load_state", phone |-> phone, seen |-> Len(offers),
                  session |-> LoadState(sessions, phone)]
    /\ UNCHANGED <<now, calendar, service, memory, offers, ticks, sessions, response, last, pending>>

NextStore == StoreSave \/ StoreReset \/ StoreLoad

SpecStore == InitStore /\ [][NextStore]_vars

(***************************************************************************)
(* Two users of the dialog: messages of two phones handled one at a time,  *)
(* each phone starting with no session or with one the dialog has stored.  *)
(* 'ticks' counts the handled messages.                                    *)
(***************************************************************************)
TwoPhones == {"p1", "p2"}

MaxPhoneMessages == 2

StartStores ==
  { EmptyMap,
    SaveState(EmptyMap, "p2", STATE_WAITING_DESCRIPTION, CollectedBeforeDescription),
    SaveState(SaveState(EmptyMap, "p1", STATE_WAITING_CONFIRMATION,
                        Put(CollectedBeforeDescription, "description", "0")),
              "p2", STATE_WAITING_DESCRIPTION, CollectedBeforeDescription) }

InitPhones ==
  /\ now = At(0, 7, 15, 0)
  /\ calendar = {}
  /\ service = "up"
  /\ sessions \in StartStores
  /\ memory = [u \in UserKeys |-> << >>]
  /\ result = NoResult
  /\ offers = << >>
  /\ ticks = 0
  /\ response = << >>
  /\ last = NoResult
  /\ pending = {}

\* a message of either phone
PhoneMessage ==
  /\ ticks < MaxPhoneMessages
  /\ ticks' = ticks + 1
  /\ \E phone \in TwoPhones : HandleMessageOf(phone)

NextPhones == PhoneMessage

SpecPhones == InitPhones /\ [][NextPhones]_vars

(***************************************************************************)
(* Properties of the dialog                                                *)
(***************************************************************************)
Range(seq) == { seq[i] : i \in 1..Len(seq) }

StoredSession == LoadState(sessions, last.phone)

\* C1: in every state, an inbound text of the menu-reset vocabulary (case-insensitive)
\* leaves the stored session IDLE with empty data and is answered with the main menu
C1_MenuResetOverride ==
  (last.op = "message" /\ Lower(last.text) \in MENU_COMMANDS)
    => /\ StoredSession = [state |-> STATE_IDLE, data |-> EmptyData]
       /\ response = << Msg("MENU") >>

\* the inputs outside the accepted-input set of a state
InvalidInput(state, text, today) ==
  \/ state = STATE_IDLE /\ text \notin {"1", "2", "3"}
  \/ state = STATE_DATE_PICK /\ text \notin {"1", "2", "3", "4", "5"}
  \/ state = STATE_WAITING_CONFIRMATION /\ text \notin {"1", "2", "3"}
  \/ state = STATE_DATE_FREEFORM
       /\ (~ IsDate(text) \/ ParseDate(text) < today \/ ParseDate(text) > today + 90)
  \/ state = STATE_WAITING_NAME /\ (TextLen(text) < 3 \/ TextLen(text) > 60)
  \/ state = STATE_WAITING_EMAIL /\ ~ IsEmail(text)
  \/ state = STATE_WAITING_ADDRESS /\ TextLen(text) > 120
  \/ state = STATE_WAITING_DESCRIPTION /\ TextLen(text) > 300

\* C2: for every (state, input) pair with the input outside the state's accepted-input
\* set, the stored state after handling equals the state before handling
C2_InvalidInputKeepsState ==
  (last.op = "message" /\ InvalidInput(last.before.state, last.text, DateOf(now)))
    => StoredSession.state = last.before.state

\* C2 witness: a name of more than 60 characters was handled in WAITING_NAME
C2_Witness ==
  /\ last.op = "message"
  /\ last.before.state = STATE_WAITING_NAME
  /\ TextLen(last.text) > 60
  /\ StoredSession.state = STATE_WAITING_NAME

\* C10: from IDLE, input "1" with a slot fetch that succeeds stores DATE_PICK and
\* answers with exactly 3 offered slots plus the 'other date' and 'main menu' options
C10_IdleOneOffersThreeSlots ==
  (last.op = "message" /\ last.before.state = STATE_IDLE /\ last.text = "1" /\ last.fetch = "ok")
    => /\ StoredSession.state = STATE_DATE_PICK
       /\ ~ last.raised
       /\ Len(response) = 1
       /\ response[1].kind = "SLOT_MENU"
       /\ Len(response[1].slots) = 3

\* the slots stored in a session's data ([] when the key is missing)
StoredSlots(data) == IF Has(data, "slots") THEN data["slots"] ELSE << >>

\* C11: from DATE_PICK with at least 3 stored slots, input i in {"1","2","3"} stores
\* WAITING_NAME with data equal to exactly {chosen_slot: slots[i-1]}
C11_PickStoresChosenSlotOnly ==
  \A i \in 1..3 :
    ( /\ last.op = "message"
      /\ last.before.state = STATE_DATE_PICK
      /\ Len(StoredSlots(last.before.data)) >= 3
      /\ last.text = <<"1", "2", "3">>[i] )
      => StoredSession = [state |-> STATE_WAITING_NAME,
                          data |-> [k \in {"chosen_slot"} |-> StoredSlots(last.before.data)[i]]]

\* C11 witness: the second of three offered slots was picked
C11_Witness ==
  /\ last.op = "message"
  /\ last.before.state = STATE_DATE_PICK
  /\ Len(StoredSlots(last.before.data)) >= 3
  /\ last.text = "2"
  /\ StoredSession.state = STATE_WAITING_NAME
  /\ StoredSession.data["chosen_slot"] = StoredSlots(last.before.data)[2]

\* C12: from WAITING_EMAIL, a non-empty input that is not of the form local@domain.tld
\* is answered with the invalid-email message, the state remains WAITING_EMAIL and
\* data.email is not set
C12_BadEmailRejected ==
  ( /\ last.op = "message"
    /\ last.before.state = STATE_WAITING_EMAIL
    /\ last.text # ""
    /\ last.text \notin EmailTexts )
    => /\ Len(response) >= 1
       /\ response[1].kind = "EMAIL_INVALID"
       /\ StoredSession.state = STATE_WAITING_EMAIL
       /\ ~ Has(StoredSession.data, "email")

\* C12 witness: an address without a top-level domain was handled in WAITING_EMAIL
C12_Witness ==
  /\ last.op = "message"
  /\ last.before.state = STATE_WAITING_EMAIL
  /\ last.text = "a@b"
  /\ response[1].kind = "EMAIL_INVALID"
  /\ StoredSession.state = STATE_WAITING_EMAIL

\* the first messages with which the dialog reports a booking that was not created
BookingFailureKinds ==
  { "BOOKING_FAILED_RETRY", "BOOKING_FAILED_RAW_EXCEPTION", "BOOKING_FAILED_VALUE_ERROR",
    "BOOKING_FAILED_REGISTERED" }

\* C13: from WAITING_CONFIRMATION, input "1" leaves the stored session IDLE with empty
\* data whatever the outcome of the booking; when the booking is not created the
\* response reports the failure and no calendar event is inserted
C13_ConfirmAlwaysResets ==
  ( /\ last.op = "message"
    /\ last.before.state = STATE_WAITING_CONFIRMATION
    /\ last.text = "1" )
    => /\ StoredSession = [state |-> STATE_IDLE, data |-> EmptyData]
       /\ last.booking # "created"
            => /\ ServiceEvents(calendar) = ServiceEvents(last.calendar_before)
               /\ Len(response) >= 1
               /\ response[1].kind \in BookingFailureKinds

\* C13 witness: the chosen slot was found busy at the re-check of the confirmation
C13_Witness ==
  /\ last.op = "message"
  /\ last.before.state = STATE_WAITING_CONFIRMATION
  /\ last.text = "1"
  /\ last.booking = "not_available"
  /\ StoredSession = [state |-> STATE_IDLE, data |-> EmptyData]

\* the positions of an effect in the order in which a handler run performed them
Positions(effects, what) == {i \in 1..Len(effects) : effects[i] = what}

\* C14: in every handler path that calls the calendar gateway no session write happens
\* before the gateway call has returned or failed, and after a gateway failure the
\* stored session is IDLE with empty data
C14_WriteAfterGatewayOutcome ==
  (last.op = "message" /\ Positions(last.effects, "gateway") # {})
    => /\ \A w \in Positions(last.effects, "write") :
            \A g \in Positions(last.effects, "gateway") : g < w
       /\ (last.fetch = "RAW_EXCEPTION" \/ last.booking = "gateway_error")
            => StoredSession = [state |-> STATE_IDLE, data |-> EmptyData]

\* C14 witness: the slot fetch for a date typed in DATE_FREEFORM failed at the gateway
C14_Witness ==
  /\ last.op = "message"
  /\ last.before.state = STATE_DATE_FREEFORM
  /\ last.fetch = "RAW_EXCEPTION"
  /\ last.effects = << "gateway", "write" >>
  /\ StoredSession = [state |-> STATE_IDLE, data |-> EmptyData]

\* C15: whenever the dialog submits a booking to the calendar gateway, the session data
\* holds chosen_slot, name, email, address and description, each as its own state
\* validates it
C15_BookingFromCompleteSession ==
  (last.op = "message" /\ last.request # NoRequest)
    => LET data == last.before.data
       IN  /\ {"chosen_slot", "name", "email", "address", "description"} \subseteq DOMAIN data
           /\ data["chosen_slot"] # NoChosen
           /\ TextLen(data["name"]) >= 3 /\ TextLen(data["name"]) <= 60
           /\ data["email"] \in EmailTexts
           /\ data["address"] # "" /\ TextLen(data["address"]) <= 120
           /\ data["description"] # "" /\ TextLen(data["description"]) <= 300

\* C15 witness: a booking was submitted and created
C15_Witness ==
  /\ last.op = "message"
  /\ last.request # NoRequest
  /\ last.booking = "created"
  /\ {"chosen_slot", "name", "email", "address", "description"} \subseteq DOMAIN last.before.data

\* C16: the booking request the dialog passes to the calendar gateway at confirmation
\* carries the session's chosen slot, name, contact, address and project description
C16_RequestCarriesSession ==
  (last.op = "message" /\ last.request # NoRequest)
    => LET data == last.before.data
           request == last.request
       IN  /\ request.date = data["chosen_slot"].date
           /\ request.time = data["chosen_slot"].hour * HourSecs + data["chosen_slot"].minute * MinuteSecs
           /\ request.name = data["name"]
           /\ request.customer_number = last.phone
           /\ request.reforma = data["description"]
           /\ \E field \in DOMAIN request \ {"date", "time"} : request[field] = data["address"]

\* C17: from DATE_FREEFORM, a parseable date before today or after today + 90 days is
\* rejected with a corrective message, the state remains DATE_FREEFORM and no slot
\* fetch is made; only a date in [today, today + 90 days] triggers a slot fetch
C17_OutOfRangeDateNotFetched ==
  (last.op = "message" /\ last.before.state = STATE_DATE_FREEFORM)
    => LET today == DateOf(now)
           in_range == /\ IsDate(last.text)
                       /\ ParseDate(last.text) >= today
                       /\ ParseDate(last.text) <= today + 90
       IN  /\ (IsDate(last.text) /\ ~ in_range)
                => /\ Len(response) >= 1
                   /\ response[1].kind \in {"DATE_PAST", "DATE_TOO_FAR"}
                   /\ StoredSession.state = STATE_DATE_FREEFORM
                   /\ last.fetch = "none"
           /\ last.fetch # "none" <=> in_range

\* C17 witness: the date 91 days ahead was typed in DATE_FREEFORM and rejected
C17_Witness ==
  /\ last.op = "message"
  /\ last.before.state = STATE_DATE_FREEFORM
  /\ last.text = "06-04-2026"
  /\ response[1].kind = "DATE_TOO_FAR"
  /\ last.fetch = "none"
  /\ StoredSession.state = STATE_DATE_FREEFORM

\* C18: from WAITING_CONFIRMATION, input "2" stores WAITING_NAME with data equal to
\* exactly {chosen_slot: the previously chosen slot}
C18_CorrectionKeepsOnlySlot ==
  ( /\ last.op = "message"
    /\ last.before.state = STATE_WAITING_CONFIRMATION
    /\ last.text = "2" )
    => /\ Has(last.before.data, "chosen_slot")
       /\ StoredSession = [state |-> STATE_WAITING_NAME,
                           data |-> [k \in {"chosen_slot"} |-> last.before.data["chosen_slot"]]]

\* C18 witness: a correction was asked for from a session holding all collected fields
C18_Witness ==
  /\ last.op = "message"
  /\ last.before.state = STATE_WAITING_CONFIRMATION
  /\ last.text = "2"
  /\ {"name", "email", "address", "description"} \subseteq DOMAIN last.before.data
  /\ DOMAIN StoredSession.data = {"chosen_slot"}

\* C19: in IDLE, the first invalid input since the session was last reset is answered
\* with the main menu only, every later invalid input before the next reset with the
\* invalid-option notice followed by the menu, and the state stays IDLE
C19_IdleInvalidNoticeOnRepeat ==
  ( /\ last.op = "message"
    /\ last.before.state = STATE_IDLE
    /\ last.text \notin {"1", "2", "3"} )
    => /\ StoredSession.state = STATE_IDLE
       /\ response = IF last.invalid_before
                       THEN << Msg("INVALID_OPTION"), Msg("MENU") >>
                       ELSE << Msg("MENU") >>

\* C19 witness: a second invalid input in IDLE was answered with the notice and the menu
C19_Witness ==
  /\ last.op = "message"
  /\ last.before.state = STATE_IDLE
  /\ last.text \notin {"1", "2", "3"}
  /\ last.invalid_before
  /\ response = << Msg("INVALID_OPTION"), Msg("MENU") >>

\* C20: from DATE_PICK with fewer than 3 stored slots, input "1", "2" or "3" resets the
\* session to IDLE with empty data and answers with an apology and the main menu
C20_PickAmongTooFewResets ==
  ( /\ last.op = "message"
    /\ last.before.state = STATE_DATE_PICK
    /\ Len(StoredSlots(last.before.data)) < 3
    /\ last.text \in {"1", "2", "3"} )
    => /\ StoredSession = [state |-> STATE_IDLE, data |-> EmptyData]
       /\ response = << Msg("NO_SLOTS_APOLOGY"), Msg("MENU") >>
       /\ ~ last.raised

\* C20 witness: the first of two stored slots was picked
C20_Witness ==
  /\ last.op = "message"
  /\ last.before.state = STATE_DATE_PICK
  /\ Len(StoredSlots(last.before.data)) = 2
  /\ last.text = "1"
  /\ StoredSession = [state |-> STATE_IDLE, data |-> EmptyData]

\* C23: the store keeps one session per phone and the last write wins: after handlers
\* have finished, the stored session is exactly what the latest writer saved, whatever
\* the others wrote from the same loaded session
C23_LastWriteWins ==
  \A j \in 1..Len(offers) :
    (offers[j].wrote /\ \A k \in (j + 1)..Len(offers) : ~ offers[k].wrote)
      => LoadState(sessions, offers[j].phone) = offers[j].saved

\* C23 witness: two handlers loaded the same stored session, both wrote different
\* sessions, and the stored session is the later writer's alone
C23_Witness ==
  \E i \in 1..Len(offers) :
    LET j == Len(offers)
    IN  /\ i < j
        /\ pending = {}
        /\ offers[j].seen < i
        /\ offers[i].loaded = offers[j].loaded
        /\ offers[i].wrote /\ offers[j].wrote
        /\ offers[i].saved # offers[j].saved
        /\ offers[i].saved # offers[i].loaded
        /\ LoadState(sessions, offers[j].phone) = offers[j].saved

\* C26: a calendar gateway failure during a slot fetch or a booking is answered with the
\* uniform service-unavailable message and never with the text of the exception
C26_GatewayFailureUniformMessage ==
  (last.op = "message" /\ (last.fetch = "RAW_EXCEPTION" \/ last.booking = "gateway_error"))
    => /\ Msg("SERVICE_UNAVAILABLE") \in Range(response)
       /\ Msg("RAW_EXCEPTION") \notin Range(response)
       /\ Msg("BOOKING_FAILED_RAW_EXCEPTION") \notin Range(response)

\* C27: every handled message is answered with at least one outbound message and the
\* handler never ends by an exception after it has written the session
C27_EveryMessageAnswered ==
  last.op = "message" => (response # << >> /\ ~ last.raised)

\* C28: for every state and every input rejected as a user-input error, the stored
\* session after handling, state and data map, equals the stored session before handling
C28_RejectedInputKeepsSession ==
  (last.op = "message" /\ InvalidInput(last.before.state, last.text, DateOf(now)))
    => StoredSession = last.before

\* the session the first n writes of the log leave for a phone: the one of the latest
\* write for that phone, IDLE with empty data when there is none
LatestSave(phone, n) ==
  LET writes == { i \in 1..n : offers[i].phone = phone }
  IN  IF writes = {} THEN [state |-> STATE_IDLE, data |-> EmptyData]
      ELSE LET m == CHOOSE i \in writes : \A j \in writes : j <= i
           IN  [state |-> offers[m].state, data |-> offers[m].data]

\* C29: the store holds one session per phone: load_state returns IDLE with empty data
\* for a phone never saved and otherwise exactly the state and data of the latest save
\* for that phone, and reset_state leaves the store as save_state(phone, IDLE, {}) does
C29_StoreKeepsLatestSave ==
  /\ DOMAIN sessions \subseteq StorePhones
  /\ \A phone \in StorePhones : LoadState(sessions, phone) = LatestSave(phone, Len(offers))
  /\ result.op = "load_state" => result.session = LatestSave(result.phone, result.seen)
  /\ last.op = "reset_state"
       => sessions = SaveState(last.store_before, last.phone, STATE_IDLE, EmptyData)

\* C29 witness: after two different saves for one phone, a load returned the second
\* one, slot list included, while the other phone, never saved, loads as IDLE and empty
C29_Witness ==
  /\ Len(offers) = 2
  /\ offers[1].phone = "p1" /\ offers[2].phone = "p1"
  /\ offers[1].data = Put(EmptyData, "menu_shown", TRUE)
  /\ offers[2].op = "save_state"
  /\ offers[2].state = STATE_DATE_PICK
  /\ Has(offers[2].data, "slots")
  /\ result.op = "load_state" /\ result.phone = "p1" /\ result.seen = 2
  /\ result.session = [state |-> offers[2].state, data |-> offers[2].data]
  /\ LoadState(sessions, "p2") = [state |-> STATE_IDLE, data |-> EmptyData]

\* C32: whenever the stored session is in WAITING_CONFIRMATION, the states entered since
\* it last entered WAITING_NAME are WAITING_NAME, WAITING_EMAIL, WAITING_ADDRESS,
\* WAITING_DESCRIPTION and WAITING_CONFIRMATION, each once and in that order
C32_CollectionInOrder ==
  (last.op = "message" /\ StoredSession.state = STATE_WAITING_CONFIRMATION)
    => last.path = << STATE_WAITING_NAME, STATE_WAITING_EMAIL, STATE_WAITING_ADDRESS,
                      STATE_WAITING_DESCRIPTION, STATE_WAITING_CONFIRMATION >>

\* C32 witness: a valid description moved the session from WAITING_DESCRIPTION into
\* WAITING_CONFIRMATION, five states after it entered WAITING_NAME
C32_Witness ==
  /\ last.op = "message"
  /\ last.before.state = STATE_WAITING_DESCRIPTION
  /\ StoredSession.state = STATE_WAITING_CONFIRMATION
  /\ Len(last.path) = 5
  /\ Has(StoredSession.data, "description")

CollectedFields == {"chosen_slot", "name", "email", "address", "description"}

\* C33: under every interleaving of the handlers of one phone, a session stored in
\* WAITING_CONFIRMATION holds chosen_slot, name, email, address and description
C33_ConfirmationSessionComplete ==
  \A phone \in DialogPhones :
    LoadState(sessions, phone).state = STATE_WAITING_CONFIRMATION
      => CollectedFields \subseteq DOMAIN LoadState(sessions, phone).data

\* C33 witness: two handlers loaded the same WAITING_DESCRIPTION session, both wrote, and
\* the store holds the later writer's WAITING_CONFIRMATION session with all five fields
C33_Witness ==
  /\ Len(offers) = 2
  /\ pending = {}
  /\ offers[2].seen = 0
  /\ offers[1].loaded.state = STATE_WAITING_DESCRIPTION
  /\ offers[2].loaded = offers[1].loaded
  /\ offers[1].wrote /\ offers[2].wrote
  /\ offers[1].saved # offers[2].saved
  /\ LoadState(sessions, "p1") = offers[2].saved
  /\ offers[2].saved.state = STATE_WAITING_CONFIRMATION
  /\ DOMAIN offers[2].saved.data = CollectedFields

\* C34: when the confirmation input "1" is handled twice at the same time for one session
\* in WAITING_CONFIRMATION, at most one of the two handlers creates an event for the
\* session's chosen slot
C34_OneEventPerConfirmation ==
  \A i \in 1..Len(offers) : \A j \in 1..Len(offers) :
    ( /\ i < j
      /\ offers[j].seen < i
      /\ offers[i].phone = offers[j].phone
      /\ offers[i].text = "1" /\ offers[j].text = "1"
      /\ offers[i].loaded.state = STATE_WAITING_CONFIRMATION
      /\ offers[j].loaded = offers[i].loaded )
      => ~ (offers[i].booking = "created" /\ offers[j].booking = "created")

\* C35: handling a message of one phone leaves the stored session of every other phone
\* as it was: the same row, or no row as before
C35_OtherSessionsUntouched ==
  last.op = "message" =>
    \A other \in TwoPhones \ {last.phone} :
      /\ (other \in DOMAIN sessions) = (other \in DOMAIN last.store_before)
      /\ LoadState(sessions, other) = LoadState(last.store_before, other)

\* C35 witness: the confirmation of p1 was handled and reset p1's session while the
\* WAITING_DESCRIPTION session of p2 stayed stored
C35_Witness ==
  /\ last.op = "message"
  /\ last.phone = "p1"
  /\ last.before.state = STATE_WAITING_CONFIRMATION
  /\ last.wrote
  /\ LoadState(sessions, "p1") = [state |-> STATE_IDLE, data |-> EmptyData]
  /\ "p2" \in DOMAIN last.store_before
  /\ LoadState(sessions, "p2") =
       [state |-> STATE_WAITING_DESCRIPTION, data |-> CollectedBeforeDescription]

\* data.get("info_mode") is True
InfoMode(data) == Has(data, "info_mode") /\ data["info_mode"] = TRUE

ReturnedSlots ==
  IF result.op = "list_next_slots" THEN Range(result.available_slots)
  ELSE IF result.op = "check_availability" THEN Range(result.slots_for_day)
  ELSE {}

\* C4: no slot returned by list_next_slots or counted by check_availability overlaps a
\* busy window of the calendar (slot.start < busy.end and slot.end > busy.start)
C4_NoSlotOverlapsBusy ==
  \A s \in ReturnedSlots : \A e \in calendar :
    ~ (s.slot_start_iso < e.end /\ s.slot_end_iso > e.start)

\* C4 witness: slots were returned although a busy window lies between the call's
\* instant and the last returned slot
C4_Witness ==
  /\ result.op = "list_next_slots"
  /\ result.available_slots # << >>
  /\ \E e \in calendar :
       /\ e.end > result.at
       /\ e.start < result.available_slots[Len(result.available_slots)].slot_start_iso
       /\ e.start > result.available_slots[1].slot_start_iso

\* C5: every generated slot starts on the 60-minute grid with zero seconds and ends
\* exactly 60 minutes after its start
C5_SlotsOnGrid ==
  \A s \in ReturnedSlots :
    /\ (HourOf(s.slot_start_iso) * 60 + MinuteOf(s.slot_start_iso)) % DEFAULT_DURATION_MINUTES = 0
    /\ SecondOf(s.slot_start_iso) = 0
    /\ s.slot_end_iso = s.slot_start_iso + Minutes(DEFAULT_DURATION_MINUTES)

InsideBusinessInterval(t) ==
  \E i \in 1..Len(IntervalsForDate(DateOf(t), "")) :
    IntervalsForDate(DateOf(t), "")[i][1] < t /\ t < IntervalsForDate(DateOf(t), "")[i][2]

\* C5 witness: a search on the current day from an instant off the grid inside a
\* business interval returned a slot of that day
C5_Witness ==
  /\ result.op = "list_next_slots"
  /\ MinuteOf(result.at) # 0
  /\ InsideBusinessInterval(result.at)
  /\ \E s \in Range(result.available_slots) :
       /\ DateOf(s.slot_start_iso) = DateOf(result.at)
       /\ s.slot_start_iso - result.at < Minutes(DEFAULT_DURATION_MINUTES)

\* C6: when the search starts on the current day, no returned slot starts strictly
\* before the instant 'now' read by the call
C6_NoSlotBeforeNow ==
  (result.op = "list_next_slots" /\ SearchDate(result.arguments.desde, DateOf(result.at)) = DateOf(result.at))
    => \A s \in Range(result.available_slots) : s.slot_start_iso >= result.at

(***************************************************************************)
(* Properties of the suggestion rotation                                   *)
(***************************************************************************)
\* C7: over any sequence of list_next_slots calls of one non-empty user key, the same
\* slot key is never returned as 'suggested' twice within the 10-minute TTL
C7_NoRepeatWithinTTL ==
  \A i \in 1..Len(offers) : \A j \in 1..Len(offers) :
    (i < j /\ offers[i].user = offers[j].user /\ offers[i].slot = offers[j].slot)
      => offers[j].at - offers[i].at >= SUGGESTION_MEMORY_TTL

\* C7 witness: one user was offered two different slots within the TTL, and a slot
\* again once its TTL had passed
C7_Witness ==
  /\ \E i \in 1..Len(offers) : \E j \in 1..Len(offers) :
       /\ i < j /\ offers[i].user = offers[j].user
       /\ offers[j].at - offers[i].at < SUGGESTION_MEMORY_TTL
       /\ offers[i].slot # offers[j].slot
  /\ \E i \in 1..Len(offers) : \E j \in 1..Len(offers) :
       /\ i < j /\ offers[i].user = offers[j].user
       /\ offers[i].slot = offers[j].slot

\* every free slot of the lookahead window is in the caller's recent suggestions
AllFreeSlotsRecent ==
  /\ result.op = "list_next_slots"
  /\ result.user_key # ""
  /\ result.plain_slots # << >>
  /\ Len(result.plain_slots) < DEFAULT_TOP_N
  /\ \A s \in Range(result.plain_slots) : s.slot_start_iso \in result.recent

\* C8: when every free slot inside the lookahead window has already been offered to the
\* user within the TTL, list_next_slots clears that user's memory and offers the first
\* candidate again instead of returning no suggestion and an empty list
C8_RotationReset ==
  AllFreeSlotsRecent =>
    /\ result.rotated
    /\ result.suggested = result.plain_slots[1]
    /\ result.available_slots # << >>
    /\ memory[result.user_key] = << <<result.plain_slots[1].slot_start_iso, result.at>> >>

\* C9: a slot recorded in the user's suggestion memory within the TTL still appears in
\* the 'available_slots' returned to that user; only the 'suggested' pick skips it
C9_RecentStaysListed ==
  result.op = "list_next_slots" =>
    \A s \in Range(result.plain_slots) :
      s.slot_start_iso \in result.recent => s \in Range(result.available_slots)

\* C21: for a date whose weekday has no business intervals check_availability reports
\* "not available" with an empty slot list and no error, and list_next_slots returns no
\* slot on such a day
C21_ClosedDayReportsNoSlots ==
  /\ ( /\ result.op = "check_availability"
       /\ result.arguments.date # NoDate
       /\ BUSINESS_HOURS[Weekday(result.arguments.date)] = << >> )
       => /\ result.error = NoError
          /\ ~ result.available
          /\ result.slots_for_day = << >>
  /\ result.op = "list_next_slots"
       => \A s \in Range(result.available_slots) :
            BUSINESS_HOURS[Weekday(DateOf(s.slot_start_iso))] # << >>

\* the days list_next_slots may examine: MAX_SLOT_SEARCH_DAYS consecutive days from the search date
WindowDays(search_date) == search_date .. (search_date + MAX_SLOT_SEARCH_DAYS - 1)

\* starts of the free slots of the window: on the hour inside a business interval of the
\* block, not before instant t and not overlapping a busy window of the calendar
FreeStartsInWindow(search_date, block, t, cal) ==
  { cs \in { Combine(d, h * HourSecs) : d \in WindowDays(search_date), h \in 0..23 } :
      /\ cs >= t
      /\ \E iv \in Range(IntervalsForDate(DateOf(cs), block)) :
           iv[1] <= cs /\ cs + Minutes(DEFAULT_DURATION_MINUTES) <= iv[2]
      /\ \A e \in cal : ~ (cs < e.end /\ cs + Minutes(DEFAULT_DURATION_MINUTES) > e.start) }

\* C22: list_next_slots returns at most top_n slots, all within the 14 days from the search
\* date, and fewer than top_n only when the window holds fewer than top_n free slots
C22_FewerOnlyWhenWindowExhausted ==
  result.op = "list_next_slots" =>
    LET search_date == SearchDate(result.arguments.desde, DateOf(result.at))
    IN  /\ Len(result.available_slots) <= DEFAULT_TOP_N
        /\ \A s \in Range(result.available_slots) :
             DateOf(s.slot_start_iso) \in WindowDays(search_date)
        /\ Len(result.available_slots) < DEFAULT_TOP_N
             => Cardinality(FreeStartsInWindow(search_date, result.arguments.block,
                                               result.at, calendar)) < DEFAULT_TOP_N

\* C24: two list_next_slots calls of one user key that overlap in time and start within
\* the TTL of each other never both suggest the same slot, and the memory keeps the
\* record of each
C24_ConcurrentCallsRotate ==
  \A i \in 1..Len(offers) : \A j \in 1..Len(offers) :
    ( /\ i < j
      /\ offers[i].user = offers[j].user
      /\ offers[j].seen < i
      /\ offers[j].at - offers[i].at < SUGGESTION_MEMORY_TTL
      /\ offers[i].at - offers[j].at < SUGGESTION_MEMORY_TTL )
      => /\ offers[i].slot # offers[j].slot
         /\ \A k \in {i, j} : <<offers[k].slot, offers[k].at>> \in Range(memory[offers[k].user])

\* the offers made to user u that are less than ten minutes old at instant t
OffersWithinTen(u, t) ==
  { i \in 1..Len(offers) : offers[i].user = u /\ t - offers[i].at < Minutes(10) }

\* C25: at every instant the readers of the memory see as recent exactly the slots
\* offered to the user less than ten minutes earlier; an older offer is ignored although
\* its record stays in the memory, so list_next_slots suggests the earliest listed slot
\* that was not offered to the user within the last ten minutes
C25_RecentExactlyWithinTTL ==
  /\ \A u \in UserKeys :
       RecentSuggestions(memory, u, now) = { offers[i].slot : i \in OffersWithinTen(u, now) }
  /\ \A i \in 1..Len(offers) :
       <<offers[i].slot, offers[i].at>> \in Range(memory[offers[i].user])
  /\ (result.op = "list_next_slots" /\ result.user_key # "" /\ result.suggested # NoSlot)
       => \A s \in Range(result.plain_slots) :
            s.slot_start_iso < result.suggested.slot_start_iso
              => \E i \in OffersWithinTen(result.user_key, result.at) \ {Len(offers)} :
                   offers[i].slot = s.slot_start_iso

\* C25 witness: a slot is suggested to a user again exactly ten minutes after it was
\* offered, while the record of the first offer is still in the memory
C25_Witness ==
  \E i \in 1..Len(offers) :
    LET j == Len(offers)
    IN  /\ i < j
        /\ result.op = "list_next_slots" /\ result.at = now
        /\ offers[i].user = offers[j].user
        /\ offers[i].slot = offers[j].slot
        /\ offers[j].at - offers[i].at = Minutes(10)
        /\ <<offers[i].slot, offers[i].at>> \in Range(memory[offers[i].user])
        /\ offers[i].slot \notin result.recent

\* the first day of the search as stated: today without 'desde', today + 7 days for a
\* 'desde' that is a past date or not a date, the given date otherwise
StatedSearchStart(desde, today) ==
  IF desde.kind = "none" THEN today
  ELSE IF desde.kind = "bad" \/ desde.date < today THEN today + 7
  ELSE desde.date

\* C30: list_next_slots starts its search at today when 'desde' is absent and at
\* today + 7 days when 'desde' is a past date or is not a parseable date, so it returns
\* no slot of an earlier day
C30_SearchStartsAsStated ==
  result.op = "list_next_slots" =>
    LET start == StatedSearchStart(result.arguments.desde, DateOf(result.at))
    IN  /\ SearchDate(result.arguments.desde, DateOf(result.at)) = start
        /\ \A s \in Range(result.available_slots) : DateOf(s.slot_start_iso) >= start

\* C31: a list_next_slots call of a user key that returns a suggestion leaves the memory
\* as it was with <<suggested slot, instant of the call>> appended to that user's entries;
\* a call without a user key sees no recent suggestion and leaves the memory as it was
C31_SuggestionRecorded ==
  result.op = "list_next_slots" =>
    /\ (result.user_key # "" /\ result.suggested # NoSlot)
         => memory = [result.memory_before EXCEPT ![result.user_key] =
                        Append(@, <<result.suggested.slot_start_iso, result.at>>)]
    /\ (result.user_key # "" /\ result.suggested = NoSlot) => memory = result.memory_before
    /\ result.user_key = "" => (result.recent = {} /\ memory = result.memory_before)

\* C31 witness: a user's second suggestion was appended behind the first one
C31_Witness ==
  /\ result.op = "list_next_slots"
  /\ result.user_key = "u1"
  /\ Len(result.memory_before["u1"]) = 1
  /\ result.suggested # NoSlot
  /\ Len(memory["u1"]) = 2
  /\ memory["u1"][2] = <<result.suggested.slot_start_iso, result.at>>
  /\ memory["u1"][1] = result.memory_before["u1"][1]

\* C36: in every result of list_next_slots 'suggested' is the first element of
\* 'available_slots', and it is null exactly when 'available_slots' is empty
C36_SuggestedIsFirstListed ==
  result.op = "list_next_slots" =>
    IF result.available_slots = << >> THEN result.suggested = NoSlot
    ELSE result.suggested = result.available_slots[1]

\* C36 witness: a user to whom the earliest free slot was suggested before gets a list of
\* several slots that starts with a later slot, and that slot is the suggestion
C36_Witness ==
  /\ result.op = "list_next_slots"
  /\ result.user_key # ""
  /\ result.recent # {}
  /\ Len(result.available_slots) > 1
  /\ result.available_slots[1] # result.plain_slots[1]
  /\ result.suggested = result.available_slots[1]

\* the memory with the entries of every user key but one removed
OnlyEntriesOf(mem, user_key) == [u \in DOMAIN mem |-> IF u = user_key THEN mem[u] ELSE << >>]

SameAnswer(r, res) == r.available_slots = res.available_slots /\ r.suggested = res.suggested

\* C37: what list_next_slots returns to a user key is what it returns, for the same
\* calendar and instant, when no suggestion is recorded for any other user key
C37_OtherUsersSuggestionsIgnored ==
  result.op = "list_next_slots" =>
    SameAnswer(ListNextSlots(result.arguments, result.at, calendar,
                             OnlyEntriesOf(result.memory_before, result.user_key)),
               result)

\* C37 witness: the slot suggested to u2 less than ten minutes ago is suggested to u1
C37_Witness ==
  /\ result.op = "list_next_slots"
  /\ result.user_key = "u1"
  /\ result.memory_before["u1"] = << >>
  /\ Len(result.memory_before["u2"]) > 0
  /\ result.suggested # NoSlot
  /\ \E i \in 1..Len(result.memory_before["u2"]) :
       /\ result.memory_before["u2"][i][1] = result.suggested.slot_start_iso
       /\ result.at - result.memory_before["u2"][i][2] < Minutes(10)


\* C38: every event created by create_reservation lies wholly inside one business
\* interval of its day: it starts at or after the interval start and ends at or before its end
C38_EventInsideBusinessInterval ==
  \A e \in ServiceEvents(calendar) :
    \E i \in 1..Len(IntervalsForDate(DateOf(e.start), "")) :
      /\ IntervalsForDate(DateOf(e.start), "")[i][1] <= e.start
      /\ e.end <= IntervalsForDate(DateOf(e.start), "")[i][2]


\* an instant on the grid of slots of slot_minutes counted from midnight
OnSlotGrid(dt, slot_minutes) ==
  SecondOf(dt) = 0 /\ (HourOf(dt) * 60 + MinuteOf(dt)) % slot_minutes = 0

\* C40: for the current instant (any hour, minute and second) and slots of 60 minutes,
\* _align_to_slot returns the least instant of the slot grid that is not before the
\* instant, on the next day when the rounded time passes midnight
C40_AlignIsLeastGridInstantNotBefore ==
  /\ OnSlotGrid(AlignToSlot(now, DEFAULT_DURATION_MINUTES), DEFAULT_DURATION_MINUTES)
  /\ AlignToSlot(now, DEFAULT_DURATION_MINUTES) >= now
  /\ AlignToSlot(now, DEFAULT_DURATION_MINUTES) - now < Minutes(DEFAULT_DURATION_MINUTES)

====
